---- MODULE Spec2Model ----
(***************************************************************************)
(* A model of the entropych core: the user_follow table with FollowUser,   *)
(* UnfollowUser, IsFollowing and GetDistanceFromUser (package entropy,     *)
(* db.go), DistortContent (distort.go), and the feed of GetRecommendedPosts*)
(* with DecoratePosts (recommend.go, db.go).                               *)
(*                                                                         *)
(* Tables are sets of rows, one row per primary key; the columns no        *)
(* operation of the model reads (followed_at, reacted_at, the names and    *)
(* avatars of users) are left out.  Every operation leaves its arguments   *)
(* and its result in ret, so that a property of an operation is a property *)
(* of the state right after it; Return hands the result to the caller.     *)
(***************************************************************************)
EXTENDS Integers, Sequences, FiniteSets, TLC

VARIABLES
    user_follow,    \* table user_follow: the set of <<user_id, followed_user_id>> rows
    post,           \* table post: rows [post_id, user_id, created_at, content]
    reaction,       \* table reaction: rows [post_id, user_id, reacted_at, emoji]
    post_reply,     \* table post_reply: the set of <<post_id, reply_post_id>> rows
    ret,            \* arguments and result of the last operation
    handlers,       \* the follow and unfollow requests being served: each handler's position
    rwPool,         \* the connections free in the read-write pool
    roPool,         \* the connections free in the read-only pool
    failing         \* the statements the store answers with an error

vars == <<user_follow, post, reaction, post_reply, ret, handlers, rwPool,
          roPool, failing>>

\* the tables of posts and of what hangs on them
postTables == <<post, reaction, post_reply>>

\* the state of the handlers and of the pools they take connections from
handlerVars == <<handlers, rwPool, roPool>>

\* the handlers of concurrent requests tried
NumHandlers == 2
Handlers == 1..NumHandlers

\* sqlitex.Open(uri, flags, 1): the size of the read-write pool
rwPoolSize == 1

\* sqlitex.Open(uri, flags, poolSize): the size of the read-only pool, one
\* connection for every request tried
poolSize == NumHandlers

\* a handler that serves no request
Idle == [at |-> "idle", kind |-> "none", user |-> 0, followed |-> 0,
         status |-> "none"]

(***************************************************************************)
(* Bounds of the follow-graph specification.                               *)
(***************************************************************************)
\* user ids 1..NumUsers hold an account
NumUsers == 6

Users == 1..NumUsers

\* The <<userID, followedUserID>> arguments the FollowUser and UnfollowUser
\* calls are drawn from: a chain 1 -> 2 -> ... -> NumUsers, edges back to
\* user 1 (a mutual follow, a 3-cycle and the cycle through the whole chain),
\* an edge back into the chain, a shortcut, and every self-follow attempt.
FollowPairs ==
    {<<a, a + 1>> : a \in 1..(NumUsers - 1)}
        \cup {<<2, 1>>, <<3, 1>>, <<NumUsers, 1>>, <<1, 3>>, <<4, 2>>}
        \cup {<<a, a>> : a \in Users}

Range(s) == {s[i] : i \in 1..Len(s)}

RECURSIVE SeqOfSet(_)
\* the elements of a finite set of integers, ascending
SeqOfSet(S) ==
    IF S = {} THEN << >>
    ELSE LET m == CHOOSE x \in S : \A y \in S : x <= y
         IN  <<m>> \o SeqOfSet(S \ {m})

\* The otherUserIDs lists the GetDistanceFromUser calls are drawn from for
\* viewer userID: none, every other user, one user, the last user twice, and
\* every user with the viewer included.
TargetLists(userID) ==
    LET others == SeqOfSet(Users \ {userID})
    IN  {<< >>, others, others \o <<userID>>, <<NumUsers, NumUsers>>}
            \cup {<<t>> : t \in Users \ {userID}}

(***************************************************************************)
(* package entropy: the follow graph.                                      *)
(***************************************************************************)
MaxDistortionLevel == 5

\* insert into user_follow ... on conflict do nothing
insertUserFollowNoConflictClause(table, row) ==
    IF row \in table
        THEN [err |-> TRUE, table |-> table]
        ELSE [err |-> FALSE, table |-> table \cup {row}]

insertUserFollow(table, row) ==
    [err |-> FALSE, table |-> table \cup {row}]

deleteUserFollowOfUser(table, userID, followedUserID) ==
    {r \in table : r[1] # userID}

\* delete from user_follow where user_id = ? and followed_user_id = ?
deleteUserFollow(table, userID, followedUserID) ==
    {r \in table : ~(r[1] = userID /\ r[2] = followedUserID)}

followUserNoSelfCheck(userID, followedUserID) ==
    insertUserFollow(user_follow, <<userID, followedUserID>>)

\* FollowUser: the error it returns and the table it leaves
followUser(userID, followedUserID) ==
    IF userID = followedUserID
        THEN [err |-> TRUE, table |-> user_follow]
        ELSE insertUserFollow(user_follow, <<userID, followedUserID>>)

\* select 1 from user_follow where user_id = ? and followed_user_id = ?
IsFollowing(userID, followedUserID) ==
    [err |-> FALSE,
     isFollowing |-> \E r \in user_follow : r[1] = userID /\ r[2] = followedUserID]

\* The common table expressions of GetDistanceFromUser's query.
\* follows: select followed_user_id from user_follow where user_id = :userID
follows(userID) == {r[2] : r \in {f \in user_follow : f[1] = userID}}

\* from <level> join user_follow using (user_id): the followed_user_id column
joinUserFollow(level) == {r[2] : r \in {f \in user_follow : f[1] \in level}}

follows2WithViewer(userID) ==
    {u \in joinUserFollow(follows(userID)) : u \notin follows(userID)}

follows2(userID) ==
    {u \in joinUserFollow(follows(userID)) :
        u \notin follows(userID) /\ u # userID}

follows3NoExclusion(userID) ==
    {u \in joinUserFollow(follows2(userID)) :
        u \notin follows2(userID) /\ u # userID}

follows3(userID) ==
    {u \in joinUserFollow(follows2(userID)) :
        /\ u \notin follows(userID)
        /\ u \notin follows2(userID)
        /\ u # userID}

follows4(userID) ==
    {u \in joinUserFollow(follows3(userID)) :
        /\ u \notin follows(userID)
        /\ u \notin follows2(userID)
        /\ u \notin follows3(userID)
        /\ u # userID}

\* other_users: select value from json_each(:otherUserIDsJSON)
other_users(otherUserIDs) == Range(otherUserIDs)

distanceRowsUnfiltered(userID, otherUserIDs) ==
    {<<u, 1>> : u \in follows(userID)}
        \cup {<<u, 2>> : u \in follows2(userID)}
        \cup {<<u, 3>> : u \in follows3(userID)}
        \cup {<<u, 4>> : u \in follows4(userID)}

\* the <<user_id, distance>> rows of the final union all
distanceRows(userID, otherUserIDs) ==
    {<<u, 1>> : u \in follows(userID) \cap other_users(otherUserIDs)}
        \cup {<<u, 2>> : u \in follows2(userID) \cap other_users(otherUserIDs)}
        \cup {<<u, 3>> : u \in follows3(userID) \cap other_users(otherUserIDs)}
        \cup {<<u, 4>> : u \in follows4(userID) \cap other_users(otherUserIDs)}

\* GetDistanceFromUser: exec fails when the store fails the statement, and
\* collect fails on a user id returned twice; every
\* requested id the query did not return gets MaxDistortionLevel.  queries
\* lists the statements run against the store.
GetDistanceFromUser(userID, otherUserIDs) ==
    LET rows == distanceRows(userID, otherUserIDs)
        found == {r[1] : r \in rows}
        twice == \E r1, r2 \in rows : r1[1] = r2[1] /\ r1[2] # r2[2]
        keys == found \cup Range(otherUserIDs)
    IN  IF twice \/ "distance" \in failing
            THEN [err |-> TRUE, result |-> << >>, queries |-> <<"distance">>]
            ELSE [err |-> FALSE,
                  result |-> [u \in keys |->
                                IF u \in found
                                    THEN (CHOOSE r \in rows : r[1] = u)[2]
                                    ELSE MaxDistortionLevel],
                  queries |-> <<"distance">>]

\* The common table expressions of GetUserFollowStats's query.  A column is
\* <<n>>, or << >> for the NULL a left join gives a row without a partner.
\* follows: the user's following_count, no row when the user follows nobody
statsFollows(userID) ==
    LET n == Cardinality({r \in user_follow : r[1] = userID})
    IN  IF n = 0 THEN {} ELSE {[user_id |-> userID, following_count |-> n]}

\* followers: the user's follower_count, no row when nobody follows the user
statsFollowers(userID) ==
    LET n == Cardinality({r \in user_follow : r[2] = userID})
    IN  IF n = 0 THEN {} ELSE {[user_id |-> userID, follower_count |-> n]}

\* follows left join followers using (user_id)
followsLeftJoinFollowers(userID) ==
    {[following_count |-> <<f.following_count>>,
      follower_count |->
        IF \E g \in statsFollowers(userID) : g.user_id = f.user_id
            THEN <<(CHOOSE g \in statsFollowers(userID) :
                        g.user_id = f.user_id).follower_count>>
            ELSE << >>] : f \in statsFollows(userID)}

\* followers left join follows using (user_id)
followersLeftJoinFollows(userID) ==
    {[following_count |->
        IF \E f \in statsFollows(userID) : f.user_id = g.user_id
            THEN <<(CHOOSE f \in statsFollows(userID) :
                        f.user_id = g.user_id).following_count>>
            ELSE << >>,
      follower_count |-> <<g.follower_count>>] : g \in statsFollowers(userID)}

bothWithoutUnion(userID) == followsLeftJoinFollowers(userID)

\* both: the union (without duplicates) of the two left joins
both(userID) ==
    followsLeftJoinFollowers(userID) \cup followersLeftJoinFollows(userID)

\* stmt.ColumnInt64 of a column: 0 for NULL
ColumnInt64(column) == IF column = << >> THEN 0 ELSE column[1]

\* GetUserFollowStats: the stats it can return.  select * from both limit 1
\* takes any one row; collect does not run when there is none.
GetUserFollowStats(userID) ==
    IF both(userID) = {}
        THEN {[err |-> FALSE, UserID |-> userID,
               FollowingCount |-> 0, FollowerCount |-> 0]}
        ELSE {[err |-> FALSE, UserID |-> userID,
               FollowingCount |-> ColumnInt64(row.following_count),
               FollowerCount |-> ColumnInt64(row.follower_count)] :
                    row \in both(userID)}

(***************************************************************************)
(* The operations on the follow graph, as steps.                           *)
(***************************************************************************)
NoCall == [op |-> "none"]

Init ==
    /\ user_follow = {}
    /\ post = {}
    /\ reaction = {}
    /\ post_reply = {}
    /\ ret = NoCall
    /\ handlers = [h \in Handlers |-> Idle]
    /\ rwPool = rwPoolSize
    /\ roPool = poolSize
    /\ failing = {}

\* The caller takes the result of its call; the next call starts from there.
Return ==
    /\ ret # NoCall
    /\ ret' = NoCall
    /\ UNCHANGED <<user_follow, postTables, handlerVars, failing>>

FollowUser(userID, followedUserID) ==
    LET r == followUser(userID, followedUserID)
    IN  /\ ret = NoCall
        /\ user_follow' = r.table
        /\ ret' = [op |-> "FollowUser", userID |-> userID,
                   followedUserID |-> followedUserID, err |-> r.err,
                   old |-> user_follow]
        /\ UNCHANGED <<postTables, handlerVars, failing>>

UnfollowUser(userID, followedUserID) ==
    /\ ret = NoCall
    /\ user_follow' = deleteUserFollow(user_follow, userID, followedUserID)
    /\ ret' = [op |-> "UnfollowUser", userID |-> userID,
               followedUserID |-> followedUserID, err |-> FALSE,
               old |-> user_follow]
    /\ UNCHANGED <<postTables, handlerVars, failing>>

CallIsFollowing(userID, followedUserID) ==
    LET r == IsFollowing(userID, followedUserID)
    IN  /\ ret = NoCall
        /\ ret' = [op |-> "IsFollowing", userID |-> userID,
                   followedUserID |-> followedUserID, err |-> r.err,
                   isFollowing |-> r.isFollowing]
        /\ UNCHANGED <<user_follow, postTables, handlerVars, failing>>

CallGetDistanceFromUser(userID, otherUserIDs) ==
    LET r == GetDistanceFromUser(userID, otherUserIDs)
    IN  /\ ret = NoCall
        /\ ret' = [op |-> "GetDistanceFromUser", userID |-> userID,
                   otherUserIDs |-> otherUserIDs, err |-> r.err,
                   result |-> r.result, queries |-> r.queries]
        /\ UNCHANGED <<user_follow, postTables, handlerVars, failing>>

CallGetUserFollowStats(userID) ==
    /\ ret = NoCall
    /\ \E stats \in GetUserFollowStats(userID) :
            ret' = [op |-> "GetUserFollowStats", userID |-> userID,
                    err |-> stats.err, stats |-> stats]
    /\ UNCHANGED <<user_follow, postTables, handlerVars, failing>>

Next ==
    \/ \E p \in FollowPairs : FollowUser(p[1], p[2])
    \/ \E p \in FollowPairs : UnfollowUser(p[1], p[2])
    \/ \E p \in FollowPairs : CallIsFollowing(p[1], p[2])
    \/ \E u \in Users : \E l \in TargetLists(u) : CallGetDistanceFromUser(u, l)
    \/ \E u \in Users : CallGetUserFollowStats(u)
    \/ Return

Spec == Init /\ [][Next]_vars

(***************************************************************************)
(* Properties of the follow graph, checked under Spec.                     *)
(***************************************************************************)
RECURSIVE WalkEnds(_, _)
\* the users at the end of a walk of exactly k follow edges that starts at v
WalkEnds(v, k) ==
    IF k = 0 THEN {v}
    ELSE LET before == WalkEnds(v, k - 1)
         IN  {f[2] : f \in {g \in user_follow : g[1] \in before}}

\* the length of the shortest forward follow path from v to t when it is at
\* most 4, and MaxDistortionLevel otherwise
ForwardDistance(v, t) ==
    IF \E k \in 1..4 : t \in WalkEnds(v, k)
        THEN CHOOSE k \in 1..4 :
                /\ t \in WalkEnds(v, k)
                /\ \A j \in 1..(k - 1) : t \notin WalkEnds(v, j)
        ELSE MaxDistortionLevel

\* C1: for a viewer V and a target list S without V, GetDistanceFromUser(V, S)
\* returns no error and a map whose keys are exactly the ids of S and whose
\* value for each T is the length of the shortest forward follow path from V
\* to T when that is 1..4, and MaxDistortionLevel when there is none of
\* length <= 4.
C1_DistanceIsShortestPath ==
    (ret.op = "GetDistanceFromUser" /\ ret.userID \notin Range(ret.otherUserIDs))
        => /\ ~ret.err
           /\ DOMAIN ret.result = Range(ret.otherUserIDs)
           /\ \A t \in Range(ret.otherUserIDs) :
                ret.result[t] = ForwardDistance(ret.userID, t)

\* A call on a graph with a mutual follow and a cycle back to the viewer that
\* returned each of the distances 1, 2, 3, 4 and the cap for a user five
\* follows away.
C1_Witness ==
    /\ ret.op = "GetDistanceFromUser"
    /\ ret.userID \notin Range(ret.otherUserIDs)
    /\ ~ret.err
    /\ \A d \in 1..4 : \E t \in DOMAIN ret.result : ret.result[t] = d
    /\ \E t \in DOMAIN ret.result :
            ret.result[t] = MaxDistortionLevel /\ t \in WalkEnds(ret.userID, 5)
    /\ \E t \in DOMAIN ret.result :
            <<t, ret.userID>> \in user_follow /\ <<ret.userID, t>> \in user_follow
    /\ \E t \in DOMAIN ret.result :
            <<t, ret.userID>> \in user_follow /\ ret.result[t] > 1

\* C2 as stated: GetDistanceFromUser with an empty target list returns an
\* empty map and runs no query against the store.
C2_EmptyTargetsNoQuery ==
    (ret.op = "GetDistanceFromUser" /\ ret.otherUserIDs = << >>)
        => /\ ~ret.err
           /\ DOMAIN ret.result = {}
           /\ ret.queries = << >>

\* C2 as amended: GetDistanceFromUser with an empty target list returns an
\* empty map without error; its distance query is run all the same, once.
C2_EmptyTargetsEmptyMap ==
    (ret.op = "GetDistanceFromUser" /\ ret.otherUserIDs = << >>)
        => /\ ~ret.err
           /\ DOMAIN ret.result = {}
           /\ ret.queries = <<"distance">>

\* A call with no targets by a viewer who follows somebody.
C2_Witness ==
    /\ ret.op = "GetDistanceFromUser"
    /\ ret.otherUserIDs = << >>
    /\ follows(ret.userID) # {}
    /\ follows2(ret.userID) # {}

\* C3: FollowUser(V, V) returns an error and leaves user_follow as it was, and
\* user_follow never holds a row whose user_id is its followed_user_id.
C3_NoSelfFollow ==
    /\ (ret.op = "FollowUser" /\ ret.userID = ret.followedUserID)
            => (ret.err /\ user_follow = ret.old)
    /\ \A r \in user_follow : r[1] # r[2]

\* A refused FollowUser(V, V) by a user who follows others and is followed.
C3_Witness ==
    /\ ret.op = "FollowUser"
    /\ ret.userID = ret.followedUserID
    /\ ret.err
    /\ \E r \in user_follow : r[1] = ret.userID
    /\ \E r \in user_follow : r[2] = ret.userID

\* C4: FollowUser(V, T), V # T, on a row that is already there returns no
\* error and leaves user_follow as it was, with its one <<V, T>> row, and
\* IsFollowing(V, T) is still true.
C4_FollowIdempotent ==
    (/\ ret.op = "FollowUser"
     /\ ret.userID # ret.followedUserID
     /\ <<ret.userID, ret.followedUserID>> \in ret.old)
        => /\ ~ret.err
           /\ user_follow = ret.old
           /\ Cardinality({r \in user_follow :
                    r[1] = ret.userID /\ r[2] = ret.followedUserID}) = 1
           /\ IsFollowing(ret.userID, ret.followedUserID).isFollowing
           /\ ~IsFollowing(ret.userID, ret.followedUserID).err

\* A FollowUser(V, T) call on a row that was already there.
C4_Witness ==
    /\ ret.op = "FollowUser"
    /\ ret.userID # ret.followedUserID
    /\ <<ret.userID, ret.followedUserID>> \in ret.old
    /\ ~ret.err

(***************************************************************************)
(* package entropy: DistortContent (distort.go).                           *)
(*                                                                         *)
(* A Go string is a sequence of bytes.  range over a string decodes UTF-8: *)
(* an invalid byte comes out as RuneError, one byte wide.  WriteRune       *)
(* appends the UTF-8 encoding of a rune.                                   *)
(***************************************************************************)
\* utf8.RuneError, U+FFFD
RuneError == 65533

\* a UTF-8 continuation byte, 0x80..0xBF
isContinuation(b) == b >= 128 /\ b <= 191

\* the rune that starts at byte i of s and the number of bytes it takes
DecodeRune(s, i) ==
    LET n == Len(s) - i + 1
        b0 == s[i]
        b1 == IF n >= 2 THEN s[i + 1] ELSE 0
        b2 == IF n >= 3 THEN s[i + 2] ELSE 0
        b3 == IF n >= 4 THEN s[i + 3] ELSE 0
        invalid == [rune |-> RuneError, size |-> 1]
    IN  IF b0 < 128 THEN [rune |-> b0, size |-> 1]
        ELSE IF b0 >= 194 /\ b0 <= 223
            THEN IF isContinuation(b1)
                    THEN [rune |-> (b0 - 192) * 64 + (b1 - 128), size |-> 2]
                    ELSE invalid
        ELSE IF b0 >= 224 /\ b0 <= 239
            THEN IF /\ b1 >= (IF b0 = 224 THEN 160 ELSE 128)
                    /\ b1 <= (IF b0 = 237 THEN 159 ELSE 191)
                    /\ isContinuation(b2)
                    THEN [rune |-> (b0 - 224) * 4096 + (b1 - 128) * 64 + (b2 - 128),
                          size |-> 3]
                    ELSE invalid
        ELSE IF b0 >= 240 /\ b0 <= 244
            THEN IF /\ b1 >= (IF b0 = 240 THEN 144 ELSE 128)
                    /\ b1 <= (IF b0 = 244 THEN 143 ELSE 191)
                    /\ isContinuation(b2)
                    /\ isContinuation(b3)
                    THEN [rune |-> (b0 - 240) * 262144 + (b1 - 128) * 4096
                                    + (b2 - 128) * 64 + (b3 - 128),
                          size |-> 4]
                    ELSE invalid
        ELSE invalid

RECURSIVE RunesFrom(_, _)
RunesFrom(s, i) ==
    IF i > Len(s) THEN << >>
    ELSE LET d == DecodeRune(s, i)
         IN  <<d.rune>> \o RunesFrom(s, i + d.size)

\* the runes of a string, as range and utf8.RuneCountInString see them
RuneSeq(s) == RunesFrom(s, 1)

\* a loop over the bytes of the string, each byte taken for a rune
rangeBytes(content) == content

\* for _, r := range content
rangeString(content) == RuneSeq(content)

\* the bytes WriteRune appends for rune r
EncodeRune(r) ==
    LET v == IF r < 0 \/ r > 1114111 \/ (r >= 55296 /\ r <= 57343)
                THEN RuneError ELSE r
    IN  IF v < 128 THEN <<v>>
        ELSE IF v < 2048 THEN <<192 + (v \div 64), 128 + (v % 64)>>
        ELSE IF v < 65536
            THEN <<224 + (v \div 4096), 128 + ((v \div 64) % 64), 128 + (v % 64)>>
        ELSE <<240 + (v \div 262144), 128 + ((v \div 4096) % 64),
               128 + ((v \div 64) % 64), 128 + (v % 64)>>

RECURSIVE WriteRunes(_)
\* the builder's bytes after WriteRune of each rune in turn
WriteRunes(runes) ==
    IF runes = << >> THEN << >>
    ELSE EncodeRune(Head(runes)) \o WriteRunes(Tail(runes))

minRune == 32
maxRune == 127
maxGraphDistance == 6

\* mathrand.Float32() is n / F32Scale for an n in 0..F32Scale-1
F32Scale == 16777216

\* randomContentRune, with i the value mathrand.Intn(maxRune - minRune) drew
randomContentRune(i) == minRune + i

\* p with the division rounded down to a whole number
pDistortContentWholeNumber(graphDistance) ==
    (graphDistance \div maxGraphDistance) * maxGraphDistance

\* p := min(float32(graphDistance)/maxGraphDistance, 1.0), counted in units
\* of 1 / maxGraphDistance (the variable p of DistortContent)
pDistortContent(graphDistance) ==
    IF graphDistance < maxGraphDistance
        THEN graphDistance ELSE maxGraphDistance

\* mathrand.Float32() > p for the draw f / F32Scale and
\* p = min(graphDistance / maxGraphDistance, 1.0): the rune is kept
keepsRune(f, graphDistance) ==
    f * maxGraphDistance > pDistortContent(graphDistance) * F32Scale

\* the loop of DistortContent; draws[k] is the <<Float32, Intn>> pair drawn
\* for the k-th rune
distortLoop(content, graphDistance, draws) ==
    LET runes == rangeString(content)
    IN  WriteRunes([k \in 1..Len(runes) |->
            IF keepsRune(draws[k][1], graphDistance)
                THEN runes[k]
                ELSE randomContentRune(draws[k][2])])

DistortContentNoEarlyReturn(content, graphDistance, draws) ==
    distortLoop(content, graphDistance, draws)

DistortContent(content, graphDistance, draws) ==
    IF graphDistance = 0 THEN content
    ELSE distortLoop(content, graphDistance, draws)

(***************************************************************************)
(* Bounds of the DistortContent specification.                             *)
(***************************************************************************)
\* the pieces the texts are made of: "h", U+00E9, U+2588, U+1F600, the
\* invalid byte 0xFF, and the first and the second byte of U+2588 alone
\* (together they are U+2588 cut after its second byte)
TextUnits ==
    {<<104>>, <<195, 169>>, <<226, 150, 136>>, <<240, 159, 152, 128>>,
     <<255>>, <<226>>, <<150>>}

\* a text is at most MaxTextUnits pieces
MaxTextUnits == 2

RECURSIVE TextsOf(_)
TextsOf(n) ==
    IF n = 0 THEN {<< >>}
    ELSE TextsOf(n - 1) \cup {t \o u : t \in TextsOf(n - 1), u \in TextUnits}

Texts == TextsOf(MaxTextUnits)

\* graphDistance arguments 0..MaxGraphDistanceArg
MaxGraphDistanceArg == 6

\* the Float32 draws tried: the least, the middle and the greatest
FloatDraws == {0, F32Scale \div 2, F32Scale - 1}

\* the Intn(maxRune - minRune) draws tried: the least and the greatest
RuneDraws == {0, maxRune - minRune - 1}

DrawsFor(content) ==
    [1..Len(rangeString(content)) -> FloatDraws \X RuneDraws]

CallDistortContent(content, graphDistance) ==
    /\ ret = NoCall
    /\ \E draws \in DrawsFor(content) :
            ret' = [op |-> "DistortContent", content |-> content,
                    graphDistance |-> graphDistance,
                    out |-> DistortContent(content, graphDistance, draws)]
    /\ UNCHANGED <<user_follow, postTables, handlerVars, failing>>

NextDistort ==
    \/ \E content \in Texts : \E d \in 0..MaxGraphDistanceArg :
            CallDistortContent(content, d)
    \/ Return

SpecDistort == Init /\ [][NextDistort]_vars

\* C5: DistortContent(text, 0) returns text unchanged, byte for byte.
C5_DistanceZeroUnchanged ==
    (ret.op = "DistortContent" /\ ret.graphDistance = 0)
        => ret.out = ret.content

\* A call at distance 0 on a text with a multi-byte rune and an invalid byte.
C5_Witness ==
    /\ ret.op = "DistortContent"
    /\ ret.graphDistance = 0
    /\ Len(RuneSeq(ret.content)) = 2
    /\ Len(ret.content) > 2
    /\ \E k \in 1..Len(ret.content) : ret.content[k] = 255

\* C6: at every distance >= 1 the result has as many runes as the input, and
\* each of them is the input's rune at that position or a rune of the
\* replacement range minRune..maxRune-1.
C6_RuneCountPreserved ==
    (ret.op = "DistortContent" /\ ret.graphDistance >= 1)
        => /\ Len(RuneSeq(ret.out)) = Len(RuneSeq(ret.content))
           /\ \A k \in 1..Len(RuneSeq(ret.content)) :
                \/ RuneSeq(ret.out)[k] = RuneSeq(ret.content)[k]
                \/ /\ RuneSeq(ret.out)[k] >= minRune
                   /\ RuneSeq(ret.out)[k] < maxRune

\* A call at a distance >= 1 on a text of two multi-byte runes that replaced
\* the first and kept the second.
C6_Witness ==
    /\ ret.op = "DistortContent"
    /\ ret.graphDistance >= 1
    /\ Len(RuneSeq(ret.content)) = 2
    /\ Len(ret.content) > 4
    /\ RuneSeq(ret.out)[1] # RuneSeq(ret.content)[1]
    /\ RuneSeq(ret.out)[2] = RuneSeq(ret.content)[2]
    /\ RuneSeq(ret.out)[2] > maxRune

\* the draws that take the smallest Float32 above zero for every rune, and
\* i as the replacement
leastPositiveDraws(content, i) ==
    [k \in 1..Len(rangeString(content)) |-> <<1, i>>]

\* C21: the replacement probability p of DistortContent does not decrease
\* from one distance to the next over 0..MaxDistortionLevel, is 0 at
\* distance 0 only, and is above 0 at distance 1: a text of at least one
\* rune has draws of positive probability that change it at the distance
\* of the call, whenever that distance is 1 or more.
C21_ProbabilityMonotone ==
    ret.op = "DistortContent" =>
        LET d == ret.graphDistance
        IN  /\ pDistortContent(1) > 0
            /\ d \in 0..MaxDistortionLevel =>
                    /\ pDistortContent(d) = 0 <=> d = 0
                    /\ pDistortContent(d) <= pDistortContent(d + 1)
                    /\ pDistortContent(d) <= maxGraphDistance
            /\ (d >= 1 /\ ret.content # << >>) =>
                    \E i \in RuneDraws :
                        DistortContent(ret.content, d,
                            leastPositiveDraws(ret.content, i)) # ret.content

\* A call at distance 1 that changed the text.
C21_Witness ==
    /\ ret.op = "DistortContent"
    /\ ret.graphDistance = 1
    /\ ret.out # ret.content

(***************************************************************************)
(* package entropy: posts and their queries (db.go).                       *)
(*                                                                         *)
(* A time.Time is a number of ticks, TicksPerSecond to the second; the     *)
(* created_at column holds whole seconds.                                  *)
(***************************************************************************)
\* the nil *User; getReactionCountsForPosts binds it as :userID = 0
NoUser == 0

TicksPerSecond == 2

\* t.UTC().Unix()
Unix(t) == t \div TicksPerSecond

\* time.Unix(sec, 0).UTC()
timeUnix(sec) == sec * TicksPerSecond

MaxPostLength == 256

\* CreatePost cuts the content after MaxPostLength bytes
truncateContent(content) ==
    IF Len(content) > MaxPostLength
        THEN SubSeq(content, 1, MaxPostLength)
        ELSE content

\* conn.LastInsertRowID() of an insert into post: the next rowid
nextPostID == IF post = {} THEN 1
              ELSE 1 + CHOOSE m \in {r.post_id : r \in post} :
                        \A r \in post : r.post_id <= m

\* collectPosts: the Post of a result row; DecoratePosts fills in the rest
collectPosts(row) ==
    [PostID |-> row.post_id, UserID |-> row.user_id,
     CreatedAt |-> timeUnix(row.created_at), Content |-> row.content,
     Reactions |-> {}, ReplyCount |-> 0, ReplyingToPostID |-> 0,
     DistanceFromUser |-> 0]

\* from post join user using (user_id)
postJoinUser == {r \in post : r.user_id \in Users}

\* order by created_at desc: rows of one second come in any order
orderByCreatedAtDesc(rows) ==
    {s \in [1..Cardinality(rows) -> rows] :
        \A i, j \in 1..Cardinality(rows) :
            i < j => (s[i] # s[j] /\ s[i].created_at >= s[j].created_at)}

\* limit ?: a negative limit is no limit
sqlLimit(s, limit) ==
    IF limit < 0 \/ limit >= Len(s) THEN s ELSE SubSeq(s, 1, limit)

\* the []Post values a query over rows, ordered and limited, can collect
selectPosts(rows, limit) ==
    {[k \in 1..Len(l) |-> collectPosts(l[k])] :
        l \in {sqlLimit(s, limit) : s \in orderByCreatedAtDesc(rows)}}

GetRecentPosts(before, limit) ==
    selectPosts({r \in postJoinUser : r.created_at < Unix(before)}, limit)

GetRecentPostsFromFollowedUsers(userID, before, limit) ==
    selectPosts({r \in postJoinUser :
                    /\ (r.user_id \in follows(userID) \/ r.user_id = userID)
                    /\ r.created_at < Unix(before)}, limit)

GetRecentPostsFromRandos(userID, before, limit) ==
    selectPosts({r \in postJoinUser :
                    /\ r.created_at < Unix(before)
                    /\ r.user_id \notin follows(userID)
                    /\ r.user_id # userID}, limit)

(***************************************************************************)
(* recommend.go                                                            *)
(***************************************************************************)
RECURSIVE drawLoop(_, _, _)
\* the loop of getPostsForLoggedInUser with n rounds left: the posts it can
\* append.  With both streams non-empty mathrand.Float32() > 0.4 decides.
drawLoop(followedPosts, chaosPosts, n) ==
    IF n <= 0 \/ (followedPosts = << >> /\ chaosPosts = << >>) THEN {<< >>}
    ELSE LET takeFollowDraws ==
                IF followedPosts = << >> THEN {FALSE}
                ELSE IF chaosPosts = << >> THEN {TRUE}
                ELSE BOOLEAN
         IN  UNION {
                IF takeFollow
                    THEN {<<Head(followedPosts)>> \o rest :
                            rest \in drawLoop(Tail(followedPosts), chaosPosts, n - 1)}
                    ELSE {<<Head(chaosPosts)>> \o rest :
                            rest \in drawLoop(followedPosts, Tail(chaosPosts), n - 1)}
                : takeFollow \in takeFollowDraws}

sortSliceBefore(posts) ==
    {s \in [1..Len(posts) -> Range(posts)] :
        /\ \A k \in 1..Len(posts) :
                Cardinality({i \in 1..Len(posts) : s[i] = posts[k]})
                    = Cardinality({i \in 1..Len(posts) : posts[i] = posts[k]})
        /\ \A i, j \in 1..Len(posts) :
                i < j => s[i].CreatedAt <= s[j].CreatedAt}

\* sort.Slice with less = posts[i].CreatedAt.After(posts[j].CreatedAt): the
\* sort is not stable, posts of one instant come out in any order
sortSlice(posts) ==
    {s \in [1..Len(posts) -> Range(posts)] :
        /\ \A k \in 1..Len(posts) :
                Cardinality({i \in 1..Len(posts) : s[i] = posts[k]})
                    = Cardinality({i \in 1..Len(posts) : posts[i] = posts[k]})
        /\ \A i, j \in 1..Len(posts) :
                i < j => ~(s[j].CreatedAt > s[i].CreatedAt)}

\* the []Post values getPostsForLoggedInUser can return
getPostsForLoggedInUser(userID, before, limit) ==
    UNION {sortSlice(drawn) :
            drawn \in UNION {drawLoop(followedPosts, chaosPosts, limit) :
                followedPosts \in GetRecentPostsFromFollowedUsers(userID, before, limit),
                chaosPosts \in GetRecentPostsFromRandos(userID, before, limit)}}

(***************************************************************************)
(* DecoratePosts (db.go).                                                  *)
(***************************************************************************)
\* distances[k] of a Go map: the zero value for a key that is not there
mapGet(m, k) == IF k \in DOMAIN m THEN m[k] ELSE 0

\* getReactionCountsForPosts with user_reacted summed over the whole post
getReactionCountsForPostsAnyEmoji(userID, p) ==
    [p EXCEPT !.Reactions =
        {[Emoji |-> e,
          Count |-> Cardinality({r \in reaction :
                        r.post_id = p.PostID /\ r.emoji = e}),
          UserReacted |-> IF userID = NoUser THEN FALSE
                          ELSE \E r \in reaction :
                                /\ r.post_id = p.PostID
                                /\ r.user_id = userID]
         : e \in {r.emoji : r \in {x \in reaction : x.post_id = p.PostID}}}]

\* getReactionCountsForPosts: one PostReactionCount per (post_id, emoji)
\* group of the post's reactions (the order of the list is left out)
getReactionCountsForPosts(userID, p) ==
    [p EXCEPT !.Reactions =
        {[Emoji |-> e,
          Count |-> Cardinality({r \in reaction :
                        r.post_id = p.PostID /\ r.emoji = e}),
          UserReacted |-> IF userID = NoUser THEN FALSE
                          ELSE \E r \in reaction :
                                /\ r.post_id = p.PostID
                                /\ r.emoji = e
                                /\ r.user_id = userID]
         : e \in {r.emoji : r \in {x \in reaction : x.post_id = p.PostID}}}]

\* getReplyCountsForPosts: post_reply join post using (post_id), grouped
getReplyCountsForPosts(p) ==
    [p EXCEPT !.ReplyCount =
        Cardinality({r \in post_reply :
            r[1] = p.PostID /\ \E x \in post : x.post_id = r[1]})]

\* getParentsForPosts: the post_id of a post_reply row of this reply whose
\* post and user exist (ReplyToPost gives a reply one such row)
getParentsForPosts(p) ==
    LET parents == {r[1] : r \in {x \in post_reply :
                        /\ x[2] = p.PostID
                        /\ \E y \in postJoinUser : y.post_id = x[1]}}
    IN  IF parents = {} THEN p
        ELSE [p EXCEPT !.ReplyingToPostID = CHOOSE q \in parents : TRUE]

\* distortPostsForUser that takes the viewer's own posts like any other
distortPostsForUserOwnPostsToo(userID, posts, draws) ==
    IF userID = NoUser
        THEN [err |-> FALSE, queries |-> << >>, distanceArgs |-> << >>,
              posts |-> [i \in 1..Len(posts) |->
                [posts[i] EXCEPT
                    !.Content = DistortContent(@, MaxDistortionLevel, draws[i]),
                    !.DistanceFromUser = MaxDistortionLevel]]]
    ELSE LET otherUserIDs == SeqOfSet({posts[i].UserID : i \in 1..Len(posts)})
             d == GetDistanceFromUser(userID, otherUserIDs)
         IN  IF d.err
                THEN [err |-> TRUE, queries |-> d.queries,
                      distanceArgs |-> <<otherUserIDs>>, posts |-> posts]
                ELSE [err |-> FALSE, queries |-> d.queries,
                      distanceArgs |-> <<otherUserIDs>>,
                      posts |-> [i \in 1..Len(posts) |->
                        [posts[i] EXCEPT
                            !.Content = DistortContent(@,
                                mapGet(d.result, posts[i].UserID), draws[i]),
                            !.DistanceFromUser =
                                mapGet(d.result, posts[i].UserID)]]]

\* distortPostsForUser that looks the anonymous viewer up in the follow
\* graph as user 0
distortPostsForUserNilAsUser(userID, posts, draws) ==
    LET otherUserIDs ==
            SeqOfSet({posts[i].UserID : i \in 1..Len(posts)} \ {userID})
        d == GetDistanceFromUser(userID, otherUserIDs)
    IN  [err |-> d.err, queries |-> d.queries,
         distanceArgs |-> <<otherUserIDs>>,
         posts |-> [i \in 1..Len(posts) |->
            IF posts[i].UserID = userID \/ d.err THEN posts[i]
            ELSE [posts[i] EXCEPT
                    !.Content = DistortContent(@,
                        mapGet(d.result, posts[i].UserID), draws[i]),
                    !.DistanceFromUser = mapGet(d.result, posts[i].UserID)]]]

\* distortPostsForUser that looks the distance up post by post
distortPostsForUserPerPost(userID, posts, draws) ==
    IF userID = NoUser
        THEN [err |-> FALSE, queries |-> << >>, distanceArgs |-> << >>,
              posts |-> [i \in 1..Len(posts) |->
                [posts[i] EXCEPT
                    !.Content = DistortContent(@, MaxDistortionLevel, draws[i]),
                    !.DistanceFromUser = MaxDistortionLevel]]]
    ELSE LET others == SelectSeq([i \in 1..Len(posts) |-> posts[i].UserID],
                                 LAMBDA u : u # userID)
             d == [u \in Range(others) |-> GetDistanceFromUser(userID, <<u>>)]
         IN  [err |-> \E u \in Range(others) : d[u].err,
              queries |-> [k \in 1..Len(others) |-> "distance"],
              distanceArgs |-> [k \in 1..Len(others) |-> <<others[k]>>],
              posts |-> [i \in 1..Len(posts) |->
                IF posts[i].UserID = userID \/ d[posts[i].UserID].err
                    THEN posts[i]
                    ELSE [posts[i] EXCEPT
                            !.Content = DistortContent(@,
                                mapGet(d[posts[i].UserID].result,
                                       posts[i].UserID), draws[i]),
                            !.DistanceFromUser =
                                mapGet(d[posts[i].UserID].result,
                                       posts[i].UserID)]]]

\* distortPostsForUser; draws[i] are the random draws for the i-th post.
\* otherUserIDs comes out of a Go map in any order; the query does not
\* depend on the order, ascending stands for all.
distortPostsForUser(userID, posts, draws) ==
    IF userID = NoUser
        THEN [err |-> FALSE, queries |-> << >>, distanceArgs |-> << >>,
              posts |-> [i \in 1..Len(posts) |->
                [posts[i] EXCEPT
                    !.Content = DistortContent(@, MaxDistortionLevel, draws[i]),
                    !.DistanceFromUser = MaxDistortionLevel]]]
    ELSE LET otherUserIDs ==
                SeqOfSet({posts[i].UserID : i \in 1..Len(posts)} \ {userID})
             d == GetDistanceFromUser(userID, otherUserIDs)
         IN  IF d.err
                THEN [err |-> TRUE, queries |-> d.queries,
                      distanceArgs |-> <<otherUserIDs>>, posts |-> posts]
                ELSE [err |-> FALSE, queries |-> d.queries,
                      distanceArgs |-> <<otherUserIDs>>,
                      posts |-> [i \in 1..Len(posts) |->
                        IF posts[i].UserID = userID THEN posts[i]
                        ELSE [posts[i] EXCEPT
                                !.Content = DistortContent(@,
                                    mapGet(d.result, posts[i].UserID), draws[i]),
                                !.DistanceFromUser =
                                    mapGet(d.result, posts[i].UserID)]]]

\* DecoratePosts: nothing at all for an empty batch; the first statement
\* that fails ends it.  posts is the slice as the call leaves it: the code
\* fills the posts in in place, one statement after the other.
DecoratePosts(userID, posts, draws) ==
    IF Len(posts) = 0
        THEN [err |-> FALSE, queries |-> << >>, distanceArgs |-> << >>,
              posts |-> posts]
    ELSE IF "reaction_counts" \in failing
        THEN [err |-> TRUE, queries |-> <<"reaction_counts">>,
              distanceArgs |-> << >>, posts |-> posts]
    ELSE LET reacted == [i \in 1..Len(posts) |->
                            getReactionCountsForPosts(userID, posts[i])]
             counted == [i \in 1..Len(posts) |->
                            getReplyCountsForPosts(reacted[i])]
             d == distortPostsForUser(userID, counted, draws)
         IN  IF "reply_counts" \in failing
                THEN [err |-> TRUE, posts |-> reacted,
                      distanceArgs |-> << >>,
                      queries |-> <<"reaction_counts", "reply_counts">>]
             ELSE IF d.err
                THEN [err |-> TRUE, posts |-> d.posts,
                      distanceArgs |-> d.distanceArgs,
                      queries |-> <<"reaction_counts", "reply_counts">>
                                    \o d.queries]
             ELSE IF "parents" \in failing
                THEN [err |-> TRUE, posts |-> d.posts,
                      distanceArgs |-> d.distanceArgs,
                      queries |-> <<"reaction_counts", "reply_counts">>
                                    \o d.queries \o <<"parents">>]
             ELSE [err |-> FALSE,
                   posts |-> [i \in 1..Len(posts) |->
                                getParentsForPosts(d.posts[i])],
                   distanceArgs |-> d.distanceArgs,
                   queries |-> <<"reaction_counts", "reply_counts">>
                                \o d.queries \o <<"parents">>]

\* the random draws a decoration of posts can make: for every post, a
\* <<Float32, Intn>> pair for every rune of the longest content
postDraws(posts, floatDraws, runeDraws) ==
    IF Len(posts) = 0 THEN {<< >>}
    ELSE LET lens == {Len(rangeString(posts[i].Content)) : i \in 1..Len(posts)}
             n == CHOOSE m \in lens : \A k \in lens : k <= m
         IN  [1..Len(posts) -> [1..n -> floatDraws \X runeDraws]]

\* GetRecommendedPosts that returns the posts along with the error
GetRecommendedPostsWithErr(userID, before, limit, floatDraws, runeDraws) ==
    IF limit < 0
        THEN {[panicked |-> TRUE, err |-> FALSE, posts |-> << >>,
               queries |-> << >>, distanceArgs |-> << >>]}
    ELSE LET fetched == IF userID = NoUser
                            THEN GetRecentPosts(before, limit)
                            ELSE getPostsForLoggedInUser(userID, before, limit)
             fetchQueries == IF userID = NoUser
                                THEN <<"recent_posts">>
                                ELSE IF "followed_posts" \in failing
                                    THEN <<"followed_posts">>
                                ELSE <<"followed_posts", "rando_posts">>
         IN  IF Range(fetchQueries) \cap failing # {}
                THEN {[panicked |-> FALSE, err |-> TRUE, posts |-> << >>,
                       queries |-> fetchQueries, distanceArgs |-> << >>]}
             ELSE
             {[panicked |-> FALSE, err |-> d.err, posts |-> d.posts,
               queries |-> fetchQueries \o d.queries,
               distanceArgs |-> d.distanceArgs] :
                d \in UNION {
                    {DecoratePosts(userID, posts, draws) :
                        draws \in postDraws(posts, floatDraws, runeDraws)}
                    : posts \in fetched}}

\* the outcomes of GetRecommendedPosts: a panic (make([]Post, 0, limit) with
\* a negative limit), or the error of the first statement the store fails,
\* or the decorated posts; queries lists the statements run against the
\* store
GetRecommendedPosts(userID, before, limit, floatDraws, runeDraws) ==
    IF limit < 0
        THEN {[panicked |-> TRUE, err |-> FALSE, posts |-> << >>,
               queries |-> << >>, distanceArgs |-> << >>]}
    ELSE LET fetched == IF userID = NoUser
                            THEN GetRecentPosts(before, limit)
                            ELSE getPostsForLoggedInUser(userID, before, limit)
             fetchQueries == IF userID = NoUser
                                THEN <<"recent_posts">>
                                ELSE IF "followed_posts" \in failing
                                    THEN <<"followed_posts">>
                                ELSE <<"followed_posts", "rando_posts">>
         IN  IF Range(fetchQueries) \cap failing # {}
                THEN {[panicked |-> FALSE, err |-> TRUE, posts |-> << >>,
                       queries |-> fetchQueries, distanceArgs |-> << >>]}
             ELSE
             {[panicked |-> FALSE, err |-> d.err,
               posts |-> IF d.err THEN << >> ELSE d.posts,
               queries |-> fetchQueries \o d.queries,
               distanceArgs |-> d.distanceArgs] :
                d \in UNION {
                    {DecoratePosts(userID, posts, draws) :
                        draws \in postDraws(posts, floatDraws, runeDraws)}
                    : posts \in fetched}}

(***************************************************************************)
(* Bounds of the feed specification.                                       *)
(***************************************************************************)
\* the authors and viewers of the feed specification
FeedUserIDs == {1, 2, 3}

\* the follows tried: a cycle 1 -> 2 -> 3 -> 1; every viewer has one user it
\* can follow, one at distance 2, and a way back to itself
FeedFollowPairs == {<<1, 2>>, <<2, 3>>, <<3, 1>>}

\* at most MaxPosts posts are created, at the seconds 0..MaxSec
MaxPosts == 2
MaxSec == 1

\* the viewers: nobody, and user 1; the authors and the follows tried are the
\* same seen from user 2 or 3, so user 1 stands for every authenticated viewer
FeedViewers == {NoUser, 1}

\* limit arguments -1..MaxLimit
MaxLimit == 2

\* before arguments: every tick up to the second after the last post
Befores == 0..((MaxSec + 1) * TicksPerSecond)

\* the content of a post: U+00E9, two bytes
FeedTexts == {<<195, 169>>}

\* the Float32 draws of a decoration, 0 and 0.75: 0 replaces the rune at every
\* distance above 0, 0.75 keeps it up to distance 4 and replaces it at 5 and
\* above; and its one Intn draw
FeedFloatDraws == {0, 3 * (F32Scale \div 4)}
FeedRuneDraws == {0}

(***************************************************************************)
(* The operations on posts, as steps.                                      *)
(***************************************************************************)
\* CreatePost at a moment when utcNow().Unix() is now; the clock does not
\* run backwards
CreatePost(userID, content, now) ==
    /\ ret = NoCall
    /\ Cardinality(post) < MaxPosts
    /\ \A r \in post : r.created_at <= now
    /\ post' = post \cup {[post_id |-> nextPostID, user_id |-> userID,
                           created_at |-> now,
                           content |-> truncateContent(content)]}
    /\ ret' = [op |-> "CreatePost", userID |-> userID, err |-> FALSE,
               postID |-> nextPostID]
    /\ UNCHANGED <<user_follow, reaction, post_reply, handlerVars, failing>>

CallGetRecommendedPosts(userID, before, limit) ==
    /\ ret = NoCall
    /\ \E o \in GetRecommendedPosts(userID, before, limit,
                                    FeedFloatDraws, FeedRuneDraws) :
            ret' = [op |-> "GetRecommendedPosts", userID |-> userID,
                    before |-> before, limit |-> limit,
                    panicked |-> o.panicked, err |-> o.err,
                    posts |-> o.posts, queries |-> o.queries,
                    distanceArgs |-> o.distanceArgs]
    /\ UNCHANGED <<user_follow, postTables, handlerVars, failing>>

NextFeed ==
    \/ \E u \in FeedUserIDs : \E c \in FeedTexts : \E now \in 0..MaxSec :
            CreatePost(u, c, now)
    \/ \E p \in FeedFollowPairs : FollowUser(p[1], p[2])
    \/ \E p \in FeedFollowPairs : UnfollowUser(p[1], p[2])
    \/ \E u \in FeedViewers : \E before \in Befores :
        \E limit \in (-1)..MaxLimit : CallGetRecommendedPosts(u, before, limit)
    \/ Return

SpecFeed == Init /\ [][NextFeed]_vars

(***************************************************************************)
(* Claims about the feed.                                                  *)
(***************************************************************************)
\* a call of GetRecommendedPosts that came back with posts
returned == ret.op = "GetRecommendedPosts" /\ ~ret.panicked /\ ~ret.err

\* the stored row of a returned post
storedPost(p) == CHOOSE r \in post : r.post_id = p.PostID

\* what DistortContent can make of content at graphDistance
distortions(content, graphDistance) ==
    {DistortContent(content, graphDistance, draws) :
        draws \in [1..Len(rangeString(content)) ->
                    FeedFloatDraws \X FeedRuneDraws]}

\* C7: for the anonymous viewer every post of the decorated batch has
\* DistanceFromUser = MaxDistortionLevel and as content a DistortContent of
\* the stored content at MaxDistortionLevel, and no distance query is run.
C7_AnonymousMaxDistortion ==
    (returned /\ ret.userID = NoUser) =>
        /\ \A i \in 1..Len(ret.posts) :
            /\ ret.posts[i].DistanceFromUser = MaxDistortionLevel
            /\ ret.posts[i].Content \in
                distortions(storedPost(ret.posts[i]).content, MaxDistortionLevel)
        /\ \A k \in 1..Len(ret.queries) : ret.queries[k] # "distance"

\* an anonymous viewer got two posts, distorted, while follows exist
C7_Witness ==
    /\ returned
    /\ ret.userID = NoUser
    /\ Len(ret.posts) >= 2
    /\ user_follow # {}
    /\ \E i \in 1..Len(ret.posts) :
            ret.posts[i].Content # storedPost(ret.posts[i]).content

\* C8: for an authenticated viewer every post of the decorated batch written
\* by the viewer has the stored content, byte for byte, and DistanceFromUser
\* 0, whatever the follow graph.
C8_OwnPostsUndistorted ==
    (returned /\ ret.userID # NoUser) =>
        \A i \in 1..Len(ret.posts) :
            ret.posts[i].UserID = ret.userID =>
                /\ ret.posts[i].Content = storedPost(ret.posts[i]).content
                /\ ret.posts[i].DistanceFromUser = 0

\* the viewer is on a follow cycle and got a post of its own next to a
\* distorted post of somebody else
C8_Witness ==
    /\ returned
    /\ ret.userID # NoUser
    /\ user_follow = FeedFollowPairs
    /\ \E i, j \in 1..Len(ret.posts) :
        /\ ret.posts[i].UserID = ret.userID
        /\ ret.posts[j].UserID # ret.userID
        /\ ret.posts[j].DistanceFromUser > 0
        /\ ret.posts[j].Content # storedPost(ret.posts[j]).content

\* the returned list is ordered by createdAt descending
orderedDescending(posts) ==
    \A i \in 1..(Len(posts) - 1) : posts[i].CreatedAt >= posts[i + 1].CreatedAt

C10_AnonymousMostRecentBefore ==
    (returned /\ ret.userID = NoUser) =>
        LET eligible == {r \in post : timeUnix(r.created_at) < ret.before}
            n == Cardinality(eligible)
            ids == {ret.posts[i].PostID : i \in 1..Len(ret.posts)}
        IN  /\ Len(ret.posts) = IF ret.limit < n THEN ret.limit ELSE n
            /\ Cardinality(ids) = Len(ret.posts)
            /\ \A i \in 1..Len(ret.posts) : ret.posts[i].CreatedAt < ret.before
            /\ \A r \in eligible : r.post_id \notin ids =>
                \A i \in 1..Len(ret.posts) :
                    ~(timeUnix(r.created_at) > ret.posts[i].CreatedAt)

\* the ids of the posts of a page
postIDs(posts) == {posts[i].PostID : i \in 1..Len(posts)}

\* ids are k most recent rows of rows: k of them, and no row left out is
\* strictly newer than one taken
mostRecent(ids, k, rows) ==
    /\ ids \subseteq {r.post_id : r \in rows}
    /\ Cardinality(ids) = k
    /\ \A r, q \in rows :
        (r.post_id \in ids /\ q.post_id \notin ids) =>
            q.created_at <= r.created_at

\* the smaller of two numbers
minOf(a, b) == IF a < b THEN a ELSE b

\* C11: for an authenticated viewer, with F the up to limit most recent posts
\* with createdAt < before of followed authors or the viewer, and C those of
\* the other authors, the feed has min(limit, |F| + |C|) posts: the k most
\* recent of F and the m most recent of C for some k + m of that length.
C11_FeedIsMergeOfStreams ==
    (returned /\ ret.userID # NoUser) =>
        LET followed == {r \in post :
                /\ timeUnix(r.created_at) < ret.before
                /\ (<<ret.userID, r.user_id>> \in user_follow
                        \/ r.user_id = ret.userID)}
            chaos == {r \in post :
                /\ timeUnix(r.created_at) < ret.before
                /\ <<ret.userID, r.user_id>> \notin user_follow
                /\ r.user_id # ret.userID}
            nF == minOf(ret.limit, Cardinality(followed))
            nC == minOf(ret.limit, Cardinality(chaos))
            ids == postIDs(ret.posts)
        IN  /\ Len(ret.posts) = minOf(ret.limit, nF + nC)
            /\ Cardinality(ids) = Len(ret.posts)
            /\ \E k \in 0..nF : \E m \in 0..nC :
                /\ k + m = Len(ret.posts)
                /\ mostRecent(ids \cap {r.post_id : r \in followed}, k, followed)
                /\ mostRecent(ids \cap {r.post_id : r \in chaos}, m, chaos)

(***************************************************************************)
(* Claims about the follow statistics and the hop levels.                  *)
(***************************************************************************)
\* C17: GetUserFollowStats(U) returns as FollowingCount the number of edges
\* with follower U and as FollowerCount the number of edges with followed
\* user U, zero counts included.
C17_FollowStatsCountEdges ==
    ret.op = "GetUserFollowStats" =>
        /\ ~ret.err
        /\ ret.stats.UserID = ret.userID
        /\ ret.stats.FollowingCount =
            Cardinality({e \in user_follow : e[1] = ret.userID})
        /\ ret.stats.FollowerCount =
            Cardinality({e \in user_follow : e[2] = ret.userID})

\* the stats of a user who follows nobody and has two followers or more
C17_Witness ==
    /\ ret.op = "GetUserFollowStats"
    /\ ret.stats.FollowingCount = 0
    /\ ret.stats.FollowerCount >= 2

\* C18: for every viewer and every follow graph the hop levels 1..4 of a call
\* of GetDistanceFromUser are pairwise disjoint and levels 2..4 do not hold
\* the viewer; no call returns the error of a user id returned more than once.
C18_HopLevelsDisjoint ==
    ret.op = "GetDistanceFromUser" =>
        LET u == ret.userID
            level == <<follows(u), follows2(u), follows3(u), follows4(u)>>
        IN  /\ \A i, j \in 1..4 : i < j => level[i] \cap level[j] = {}
            /\ \A i \in 2..4 : u \notin level[i]
            /\ ~ret.err

\* a viewer on a follow cycle with users at every distance up to 4, asked
\* for one of distance 4
C18_Witness ==
    /\ ret.op = "GetDistanceFromUser"
    /\ ~ret.err
    /\ ret.userID \in joinUserFollow(follows(ret.userID))
    /\ \E t \in DOMAIN ret.result : ret.result[t] = 4

(***************************************************************************)
(* Reactions (db.go).                                                      *)
(***************************************************************************)
\* select 1 from post where post_id = ?
postExists(postID) == \E r \in post : r.post_id = postID

insertReactionNoPrimaryKey(table, row) == table \cup {row}

\* insert into reaction ... on conflict do nothing, the primary key being
\* (post_id, user_id)
insertReaction(table, row) ==
    IF \E r \in table : r.post_id = row.post_id /\ r.user_id = row.user_id
        THEN table
        ELSE table \cup {row}

\* delete from reaction where post_id = :postID and user_id = :userID
deleteReaction(table, postID, userID) ==
    {r \in table : ~(r.post_id = postID /\ r.user_id = userID)}

\* ReactToPostIfExists at a moment when utcNow().Unix() is now: what it
\* returns and the table it leaves
reactToPostIfExists(userID, postID, emoji, now) ==
    IF ~postExists(postID)
        THEN [found |-> FALSE, err |-> FALSE, table |-> reaction]
        ELSE [found |-> TRUE, err |-> FALSE,
              table |-> insertReaction(reaction,
                            [post_id |-> postID, user_id |-> userID,
                             reacted_at |-> now, emoji |-> emoji])]

unreactToPostIfExists(userID, postID) ==
    IF ~postExists(postID)
        THEN [found |-> FALSE, err |-> FALSE, table |-> reaction]
        ELSE [found |-> TRUE, err |-> FALSE,
              table |-> deleteReaction(reaction, postID, userID)]

ReactToPostIfExists(userID, postID, emoji, now) ==
    LET r == reactToPostIfExists(userID, postID, emoji, now)
    IN  /\ ret = NoCall
        /\ reaction' = r.table
        /\ ret' = [op |-> "ReactToPostIfExists", userID |-> userID,
                   postID |-> postID, emoji |-> emoji, now |-> now,
                   found |-> r.found, err |-> r.err, old |-> reaction]
        /\ UNCHANGED <<user_follow, post, post_reply, handlerVars, failing>>

UnreactToPostIfExists(userID, postID) ==
    LET r == unreactToPostIfExists(userID, postID)
    IN  /\ ret = NoCall
        /\ reaction' = r.table
        /\ ret' = [op |-> "UnreactToPostIfExists", userID |-> userID,
                   postID |-> postID, found |-> r.found, err |-> r.err,
                   old |-> reaction]
        /\ UNCHANGED <<user_follow, post, post_reply, handlerVars, failing>>

(***************************************************************************)
(* Bounds of the reactions specification.                                  *)
(***************************************************************************)
\* the users who react, the emoji they pick, the one author of the posts
ReactionUserIDs == {1, 2}
Emojis == {"thumbs_up", "fire"}
ReactionAuthors == {3}

\* the posts are written at second 0, the reactions made at these seconds
ReactionClock == {0, 1}

\* the post ids asked for: every id CreatePost can give, and one more
ReactionPostIDs == 1..(MaxPosts + 1)

NextReactions ==
    \/ \E u \in ReactionAuthors : \E c \in FeedTexts : CreatePost(u, c, 0)
    \/ \E u \in ReactionUserIDs : \E p \in ReactionPostIDs :
        \E e \in Emojis : \E now \in ReactionClock :
            ReactToPostIfExists(u, p, e, now)
    \/ \E u \in ReactionUserIDs : \E p \in ReactionPostIDs :
            UnreactToPostIfExists(u, p)
    \/ Return

SpecReactions == Init /\ [][NextReactions]_vars

\* the reaction by a user on a post in a table
reactionsOf(table, postID, userID) ==
    {r \in table : r.post_id = postID /\ r.user_id = userID}

\* C15: there is at most one reaction per (post, user); reacting where the
\* user's reaction on the post exists succeeds and leaves it as it is;
\* reacting or unreacting on a post id that does not exist reports not found
\* and changes nothing.
C15_OneReactionPerPostAndUser ==
    /\ \A r1, r2 \in reaction :
        (r1.post_id = r2.post_id /\ r1.user_id = r2.user_id) => r1 = r2
    /\ ret.op = "ReactToPostIfExists" =>
        /\ ~ret.err
        /\ ret.found = postExists(ret.postID)
        /\ ~ret.found => reaction = ret.old
        /\ reactionsOf(ret.old, ret.postID, ret.userID) # {} =>
                reaction = ret.old
        /\ (ret.found /\ reactionsOf(ret.old, ret.postID, ret.userID) = {}) =>
                /\ {r.emoji : r \in reactionsOf(reaction, ret.postID, ret.userID)}
                        = {ret.emoji}
                /\ {r \in reaction : r \notin ret.old}
                        = reactionsOf(reaction, ret.postID, ret.userID)
                /\ ret.old \subseteq reaction
    /\ ret.op = "UnreactToPostIfExists" =>
        /\ ~ret.err
        /\ ret.found = postExists(ret.postID)
        /\ ~ret.found => reaction = ret.old
        /\ ret.found =>
            reaction = ret.old \ reactionsOf(ret.old, ret.postID, ret.userID)

\* a user reacts with another emoji to a post the user has reacted to,
\* while somebody else's reaction is on the same post
C15_Witness ==
    /\ ret.op = "ReactToPostIfExists"
    /\ ret.found
    /\ \E r \in reactionsOf(ret.old, ret.postID, ret.userID) :
            r.emoji # ret.emoji
    /\ \E r \in reaction : r.post_id = ret.postID /\ r.user_id # ret.userID

(***************************************************************************)
(* cmd/server: the pages.  A value of the before query parameter is a      *)
(* sequence of numbers, << >> for a missing parameter; a time in the       *)
(* layout 20060102T150405 is <<day, hour, minute, second>>, day counting   *)
(* from 1970-01-01 for the date part.                                      *)
(***************************************************************************)
\* time.Hour
Hour == 3600 * TicksPerSecond

\* t.UTC().Format(timeQueryParamLayout): the layout has no sub-second part
Format(t) ==
    <<Unix(t) \div 86400, (Unix(t) \div 3600) % 24, (Unix(t) \div 60) % 60,
      Unix(t) % 60>>

\* time.Parse(timeQueryParamLayout, raw): an error unless raw has the four
\* fields of the layout, each in its range
Parse(raw) ==
    IF /\ Len(raw) = 4
       /\ raw[1] >= 0
       /\ raw[2] \in 0..23
       /\ raw[3] \in 0..59
       /\ raw[4] \in 0..59
        THEN [err |-> FALSE,
              time |-> timeUnix(((raw[1] * 24 + raw[2]) * 60 + raw[3]) * 60
                                    + raw[4])]
        ELSE [err |-> TRUE, time |-> 0]

\* defaultBefore() at the moment now
defaultBefore(now) == now + Hour

parseBeforeDefaultNow(beforeRaw, now) ==
    IF beforeRaw = << >> \/ Parse(beforeRaw).err THEN now
    ELSE Parse(beforeRaw).time

\* parseBefore of a request with the query parameter beforeRaw
parseBefore(beforeRaw, now) ==
    IF beforeRaw = << >> THEN defaultBefore(now)
    ELSE IF Parse(beforeRaw).err THEN defaultBefore(now)
    ELSE Parse(beforeRaw).time

getNextPageURLOfFirstPost(posts, limit) ==
    IF Len(posts) = limit THEN <<Format(posts[1].CreatedAt)>> ELSE << >>

getNextPageURLOfAnyPage(posts, limit) ==
    IF Len(posts) > 0 THEN <<Format(posts[Len(posts)].CreatedAt)>> ELSE << >>

\* getNextPageURL: << >> for the empty string, else <<cursor>> for the URL
\* with the query before=cursor
getNextPageURL(posts, limit) ==
    IF Len(posts) = limit
        THEN <<Format(posts[Len(posts)].CreatedAt)>>
        ELSE << >>

\* GetRecentPostsFromUser: no make([]Post, 0, limit) here
GetRecentPostsFromUser(userID, before, limit) ==
    selectPosts({r \in postJoinUser :
                    r.user_id = userID /\ r.created_at < Unix(before)}, limit)

\* the Float32 draw of the decoration of a page: 0, every rune of a post at
\* a distance above 0 is replaced
PageFloatDraws == {0}

\* the pages Homepage can render for a request made at the moment now; limit
\* stands for postsLimit
homepage(user, beforeRaw, now, limit) ==
    LET before == parseBefore(beforeRaw, now)
    IN  {[err |-> o.err, before |-> before, posts |-> o.posts,
          NextPageURL |-> IF o.err THEN << >>
                          ELSE getNextPageURL(o.posts, limit)] :
            o \in GetRecommendedPosts(user, before, limit,
                                      PageFloatDraws, FeedRuneDraws)}

pageDistanceOwnPageAsAnonymous(user, postingUser) ==
    IF user # NoUser /\ postingUser # user
        THEN LET d == GetDistanceFromUser(user, <<postingUser>>)
             IN  [err |-> d.err,
                  distanceFromUser |-> mapGet(d.result, postingUser),
                  isFollowing |-> mapGet(d.result, postingUser) = 1]
        ELSE [err |-> FALSE, distanceFromUser |-> MaxDistortionLevel,
              isFollowing |-> FALSE]

\* the head of getUserPostsPage: distanceFromUser and isFollowing
pageDistance(user, postingUser) ==
    IF user # NoUser /\ postingUser # user
        THEN LET d == GetDistanceFromUser(user, <<postingUser>>)
             IN  [err |-> d.err,
                  distanceFromUser |-> mapGet(d.result, postingUser),
                  isFollowing |-> mapGet(d.result, postingUser) = 1]
    ELSE IF user # NoUser /\ postingUser = user
        THEN [err |-> FALSE, distanceFromUser |-> 0, isFollowing |-> FALSE]
    ELSE [err |-> FALSE, distanceFromUser |-> MaxDistortionLevel,
          isFollowing |-> FALSE]

\* getUserPostsPage: the pages it can build; limit stands for postsLimit
getUserPostsPage(user, postingUser, before, limit) ==
    LET d == pageDistance(user, postingUser)
        failed == [err |-> TRUE, posts |-> << >>, DistanceFromUser |-> 0,
                   IsFollowingPostingUser |-> FALSE,
                   PostingUserFollowStats |-> << >>, NextPageURL |-> << >>]
    IN  IF d.err THEN {failed}
        ELSE UNION {
            {LET dec == DecoratePosts(user, posts, draws[1])
             IN  IF dec.err \/ draws[2].err THEN failed
                 ELSE [err |-> FALSE, posts |-> dec.posts,
                       DistanceFromUser |-> d.distanceFromUser,
                       IsFollowingPostingUser |-> d.isFollowing,
                       PostingUserFollowStats |-> <<draws[2]>>,
                       NextPageURL |-> getNextPageURL(dec.posts, limit)] :
                draws \in postDraws(posts, PageFloatDraws, FeedRuneDraws)
                            \X GetUserFollowStats(postingUser)}
            : posts \in GetRecentPostsFromUser(postingUser, before, limit)}

(***************************************************************************)
(* The handlers of the pages, as steps.                                    *)
(***************************************************************************)
\* the clock has not run back behind the newest post
clockAt(now) == \A r \in post : timeUnix(r.created_at) <= now

\* Homepage for a request with the query parameter beforeRaw; prior is
\* << >>, or <<page>> with the page whose next-page link the request follows
Homepage(user, beforeRaw, now, limit, prior) ==
    /\ clockAt(now)
    /\ \E page \in homepage(user, beforeRaw, now, limit) :
            ret' = [op |-> "Homepage", user |-> user, beforeRaw |-> beforeRaw,
                    now |-> now, limit |-> limit, before |-> page.before,
                    err |-> page.err, posts |-> page.posts,
                    NextPageURL |-> page.NextPageURL, prior |-> prior]
    /\ UNCHANGED <<user_follow, postTables, handlerVars, failing>>

\* ShowUserPosts: the profile page of postingUser
ShowUserPosts(user, postingUser, beforeRaw, now, limit) ==
    /\ ret = NoCall
    /\ clockAt(now)
    /\ \E page \in getUserPostsPage(user, postingUser,
                                   parseBefore(beforeRaw, now), limit) :
            ret' = [op |-> "ShowUserPosts", user |-> user,
                    postingUser |-> postingUser, beforeRaw |-> beforeRaw,
                    now |-> now, limit |-> limit,
                    before |-> parseBefore(beforeRaw, now), page |-> page]
    /\ UNCHANGED <<user_follow, postTables, handlerVars, failing>>

(***************************************************************************)
(* Bounds of the pages specification.                                      *)
(***************************************************************************)
\* the page sizes tried in place of postsLimit
PageLimits == 1..MaxLimit

\* the moment of the requests: the last tick of second MaxSec, the second
\* of the newest posts
Nows == {(MaxSec + 1) * TicksPerSecond - 1}

\* the before parameters typed in by hand: none, one with second 60, and
\* every second up to the one after the last post
BeforeRaws ==
    {<< >>, <<0, 0, 0, 60>>} \cup {<<0, 0, 0, sec>> : sec \in 0..(MaxSec + 1)}

\* the before parameters of the requests for a profile page
ProfileBeforeRaws == {<< >>, <<0, 0, 0, 1>>}

\* a request for the homepage typed in by hand
HomepageRequest(user, beforeRaw, now, limit) ==
    /\ ret = NoCall
    /\ Homepage(user, beforeRaw, now, limit, << >>)

\* the request of the next-page link of the homepage just rendered
FollowNextPage(now) ==
    /\ ret.op = "Homepage"
    /\ ret.NextPageURL # << >>
    /\ now >= ret.now
    /\ Homepage(ret.user, ret.NextPageURL[1], now, ret.limit, <<ret.posts>>)

NextPages ==
    \/ \E u \in FeedUserIDs : \E c \in FeedTexts : \E now \in 0..MaxSec :
            CreatePost(u, c, now)
    \/ \E p \in FeedFollowPairs : FollowUser(p[1], p[2])
    \/ \E u \in FeedViewers : \E raw \in BeforeRaws : \E now \in Nows :
        \E limit \in PageLimits :
            HomepageRequest(u, raw, now, limit)
    \/ \E now \in Nows : FollowNextPage(now)
    \/ \E u \in FeedViewers : \E a \in FeedUserIDs : \E raw \in ProfileBeforeRaws :
        \E now \in Nows : \E limit \in PageLimits :
            ShowUserPosts(u, a, raw, now, limit)
    \/ Return

SpecPages == Init /\ [][NextPages]_vars

(***************************************************************************)
(* Claims about the pages.                                                 *)
(***************************************************************************)
\* a homepage was rendered
rendered == ret.op = "Homepage" /\ ~ret.err

\* C12: when a page has limit posts and the next request has as before the
\* createdAt of the oldest post of that page, no post of that page is in the
\* next page: every post of the next page has createdAt < that cursor.
C12_NextPageSkipsPriorPage ==
    (rendered /\ ret.prior # << >>) =>
        LET priorPage == ret.prior[1]
            cursor == priorPage[Len(priorPage)].CreatedAt
        IN  /\ Len(priorPage) = ret.limit
            /\ \A i \in 1..Len(priorPage) : priorPage[i].CreatedAt >= cursor
            /\ ret.before = cursor
            /\ postIDs(ret.posts) \cap postIDs(priorPage) = {}
            /\ \A i \in 1..Len(ret.posts) : ret.posts[i].CreatedAt < cursor

\* an authenticated viewer followed the next-page link of a full page to a
\* page with a post
C12_Witness ==
    /\ rendered
    /\ ret.user # NoUser
    /\ ret.prior # << >>
    /\ Len(ret.posts) >= 1

inLayout(raw) ==
    Len(raw) = 4 /\ raw[1] >= 0 /\ raw[2] < 24 /\ raw[3] < 60 /\ raw[4] < 60

\* the time a value in the layout stands for
layoutTime(raw) ==
    (raw[1] * 86400 + raw[2] * 3600 + raw[3] * 60 + raw[4]) * TicksPerSecond

\* a page was asked for
requested == ret.op \in {"Homepage", "ShowUserPosts"}

\* C14 as stated: a missing or unparseable before is no error, the current
\* time takes its place; a before in the layout is that UTC time.
C14_DefaultBeforeIsNow ==
    requested =>
        ret.before = IF inLayout(ret.beforeRaw) THEN layoutTime(ret.beforeRaw)
                     ELSE ret.now

\* C14 amended: a missing or unparseable before is no error, the current
\* time plus one hour takes its place; a before in the layout is that UTC
\* time.
C14_DefaultBeforeIsNowPlusHour ==
    requested =>
        ret.before = IF inLayout(ret.beforeRaw) THEN layoutTime(ret.beforeRaw)
                     ELSE ret.now + 3600 * TicksPerSecond

\* a homepage asked for with second 60 in before shows a post written in
\* the second of the request
C14_Witness ==
    /\ rendered
    /\ ret.beforeRaw # << >>
    /\ ~inLayout(ret.beforeRaw)
    /\ \E i \in 1..Len(ret.posts) :
            Unix(ret.posts[i].CreatedAt) = Unix(ret.now)

\* C16: the DistanceFromUser of a profile page is 0 for the posting user,
\* MaxDistortionLevel for an anonymous viewer, else the distance from the
\* viewer to the posting user; every post of the page has the same
\* DistanceFromUser.
C16_PageDistanceIsPostDistance ==
    (ret.op = "ShowUserPosts" /\ ~ret.page.err) =>
        /\ ret.page.DistanceFromUser =
            IF ret.user = NoUser THEN MaxDistortionLevel
            ELSE IF ret.user = ret.postingUser THEN 0
            ELSE ForwardDistance(ret.user, ret.postingUser)
        /\ \A i \in 1..Len(ret.page.posts) :
            /\ ret.page.posts[i].UserID = ret.postingUser
            /\ ret.page.posts[i].DistanceFromUser = ret.page.DistanceFromUser

\* the profile page, with a post, of a user the viewer reaches in two hops
C16_Witness ==
    /\ ret.op = "ShowUserPosts"
    /\ ~ret.page.err
    /\ ret.user # NoUser
    /\ ret.page.DistanceFromUser = 2
    /\ Len(ret.page.posts) >= 1

(***************************************************************************)
(* cmd/server: App.FollowUser and App.UnfollowUser serving concurrent      *)
(* requests.  A handler takes the one read-write connection for the whole  *)
(* request; each statement it runs on it is one step.                      *)
(***************************************************************************)
\* a request arrives: POST .../follow or .../unfollow by user for followed
Request(h, kind, user, followed) ==
    /\ handlers[h].at = "idle"
    /\ handlers' = [handlers EXCEPT ![h] =
            [at |-> "get", kind |-> kind, user |-> user,
             followed |-> followed, status |-> "none"]]
    /\ UNCHANGED <<user_follow, postTables, ret, rwPool, roPool, failing>>

\* app.db.Get: waits for a connection of the pool
GetConn(h) ==
    /\ handlers[h].at = "get"
    /\ rwPool > 0
    /\ rwPool' = rwPool - 1
    /\ handlers' = [handlers EXCEPT ![h].at = "lookup"]
    /\ UNCHANGED <<user_follow, postTables, ret, roPool, failing>>

\* GetCurrentUser, GetUserByName, and not found for one's own name
LookupUser(h) ==
    /\ handlers[h].at = "lookup"
    /\ handlers' = [handlers EXCEPT ![h] =
            IF handlers[h].user = handlers[h].followed
                THEN [@ EXCEPT !.at = "put", !.status = "NotFound"]
                ELSE [@ EXCEPT !.at = "exec"]]
    /\ UNCHANGED <<user_follow, postTables, ret, rwPool, roPool, failing>>

\* entropy.FollowUser or entropy.UnfollowUser, then the redirect or the error
\* response
ExecStatement(h) ==
    LET r == IF handlers[h].kind = "follow"
                THEN followUser(handlers[h].user, handlers[h].followed)
                ELSE [err |-> FALSE,
                      table |-> deleteUserFollow(user_follow,
                                    handlers[h].user, handlers[h].followed)]
    IN  /\ handlers[h].at = "exec"
        /\ user_follow' = r.table
        /\ handlers' = [handlers EXCEPT ![h] =
                [@ EXCEPT !.at = "put",
                          !.status = IF r.err THEN "Error" ELSE "SeeOther"]]
        /\ UNCHANGED <<postTables, ret, rwPool, roPool, failing>>

\* defer app.db.Put(conn): the response is out
PutConn(h) ==
    /\ handlers[h].at = "put"
    /\ rwPool' = rwPool + 1
    /\ handlers' = [handlers EXCEPT ![h].at = "done"]
    /\ UNCHANGED <<user_follow, postTables, ret, roPool, failing>>

\* the handler is free for the next request
Finish(h) ==
    /\ handlers[h].at = "done"
    /\ handlers' = [handlers EXCEPT ![h] = Idle]
    /\ UNCHANGED <<user_follow, postTables, ret, rwPool, roPool, failing>>

\* the edges the requests are about: two of user 1, and user 1 itself
ConcurrentPairs == {<<1, 2>>, <<1, 3>>, <<1, 1>>}

NextConcurrent ==
    \/ \E h \in Handlers : \E kind \in {"follow", "unfollow"} :
        \E p \in ConcurrentPairs : Request(h, kind, p[1], p[2])
    \/ \E h \in Handlers : GetConn(h)
    \/ \E h \in Handlers : LookupUser(h)
    \/ \E h \in Handlers : ExecStatement(h)
    \/ \E h \in Handlers : PutConn(h)
    \/ \E h \in Handlers : Finish(h)

SpecConcurrent == Init /\ [][NextConcurrent]_vars

\* C19: under every interleaving of concurrent follow and unfollow requests
\* for an edge (V, T), V # T, no request ends in an error, and a step
\* changes the follow relation in nothing but the edge of the request that
\* takes it: the edge is there after a follow and gone after an unfollow.
C19_ConcurrentFollowUnfollow ==
    [][/\ \A h \in Handlers : handlers'[h].status # "Error"
       /\ \A h \in Handlers :
            (handlers[h].at = "exec" /\ handlers'[h].at = "put") =>
                LET edge == <<handlers[h].user, handlers[h].followed>>
                IN  /\ user_follow' \ {edge} = user_follow \ {edge}
                    /\ edge \in user_follow' <=> handlers[h].kind = "follow"
       /\ (\A h \in Handlers : handlers'[h].at = handlers[h].at)
            => user_follow' = user_follow
       /\ user_follow' # user_follow =>
            \E h \in Handlers : handlers[h].at = "exec" /\ handlers'[h].at = "put"
      ]_vars

\* a follow of an edge has run while a request to unfollow the same edge
\* waits for the connection, and the user's other edge is there
C19_Witness ==
    \E h, g \in Handlers :
        /\ handlers[h].kind = "follow"
        /\ handlers[h].at = "put"
        /\ handlers[h].status = "SeeOther"
        /\ handlers[g].kind = "unfollow"
        /\ handlers[g].at = "get"
        /\ handlers[g].user = handlers[h].user
        /\ handlers[g].followed = handlers[h].followed
        /\ \E e \in user_follow :
                e[1] = handlers[h].user /\ e[2] # handlers[h].followed

\* C20: every rune DistortContent puts in place of another is of the
\* printable Basic Latin block 0x20-0x7E or of the symbol zone 0x2580-0x27BF,
\* and both happen: some draw of randomContentRune gives a rune of the one
\* range, some draw a rune of the other.
C20_SubstitutesFromBothRanges ==
    ret.op = "DistortContent" =>
        /\ \A k \in 1..Len(RuneSeq(ret.out)) :
            \/ RuneSeq(ret.out)[k] = RuneSeq(ret.content)[k]
            \/ RuneSeq(ret.out)[k] \in 32..126
            \/ RuneSeq(ret.out)[k] \in 9600..10175
        /\ \E i \in 0..(maxRune - minRune - 1) :
                randomContentRune(i) \in 32..126
        /\ \E i \in 0..(maxRune - minRune - 1) :
                randomContentRune(i) \in 9600..10175

(***************************************************************************)
(* Claims about the decoration of a batch of posts.                        *)
(***************************************************************************)
\* the authors of the returned posts other than the viewer
otherAuthors == {ret.posts[i].UserID : i \in 1..Len(ret.posts)} \ {ret.userID}

\* the statements of the call that were the distance query
distanceQueries == {k \in 1..Len(ret.queries) : ret.queries[k] = "distance"}

\* GetDistanceFromUser was called once, with every author other than the
\* viewer once in its list, and posts of one author have one distance
oneDistanceCall ==
    /\ Len(ret.distanceArgs) = 1
    /\ Cardinality(distanceQueries) = 1
    /\ Range(ret.distanceArgs[1]) = otherAuthors
    /\ Len(ret.distanceArgs[1]) = Cardinality(otherAuthors)
    /\ \A i, j \in 1..Len(ret.posts) :
            ret.posts[i].UserID = ret.posts[j].UserID
                => ret.posts[i].DistanceFromUser = ret.posts[j].DistanceFromUser

\* C22, as stated: for an authenticated viewer the decoration of a batch,
\* whatever its number of posts, calls GetDistanceFromUser exactly once,
\* with the distinct authors of the batch other than the viewer, and gives
\* the posts of one author one DistanceFromUser.
C22_OneDistanceCallPerBatch ==
    (returned /\ ret.userID # NoUser) => oneDistanceCall

\* C22, amended: the same for a batch of at least one post (DecoratePosts
\* returns before any query when the batch is empty).
C22_OneDistanceCallPerNonEmptyBatch ==
    (returned /\ ret.userID # NoUser /\ ret.posts # << >>) => oneDistanceCall

\* A feed for an authenticated viewer with two posts of one other author.
C22_Witness ==
    /\ returned
    /\ ret.userID # NoUser
    /\ Len(ret.posts) = 2
    /\ ret.posts[1].UserID = ret.posts[2].UserID
    /\ ret.posts[1].UserID # ret.userID
    /\ Len(ret.distanceArgs) = 1

(***************************************************************************)
(* The store failing a statement of the decoration.                        *)
(***************************************************************************)
\* the statements of DecoratePosts, by the function that runs them
decorationStatements ==
    {"reaction_counts", "reply_counts", "distance", "parents"}

\* the store begins to fail a statement: prepare or step returns an error
Fail(statement) ==
    /\ ret = NoCall
    /\ failing = {}
    /\ failing' = {statement}
    /\ UNCHANGED <<user_follow, postTables, ret, handlerVars>>

\* the store is well again
Recover ==
    /\ ret = NoCall
    /\ failing # {}
    /\ failing' = {}
    /\ UNCHANGED <<user_follow, postTables, ret, handlerVars>>

\* the moment of the requests and the before of the feeds: after every post
FaultBefore == (MaxSec + 1) * TicksPerSecond

NextFaults ==
    \/ \E u \in FeedUserIDs : \E c \in FeedTexts : CreatePost(u, c, 0)
    \/ \E p \in FeedFollowPairs : FollowUser(p[1], p[2])
    \/ \E statement \in decorationStatements : Fail(statement)
    \/ Recover
    \/ \E u \in FeedViewers : CallGetRecommendedPosts(u, FaultBefore, MaxLimit)
    \/ \E u \in FeedViewers : \E a \in FeedUserIDs :
            ShowUserPosts(u, a, << >>, FaultBefore, MaxLimit)
    \/ Return

SpecFaults == Init /\ [][NextFaults]_vars

\* the statements a decoration for this viewer runs on a batch with posts
decorationRuns(userID) ==
    IF userID = NoUser THEN decorationStatements \ {"distance"}
    ELSE decorationStatements

\* C23: when the store fails a statement of DecoratePosts, the decoration
\* runs no statement after it and returns the error, and
\* GetRecommendedPosts and getUserPostsPage return the error and no posts:
\* posts are handed out only when every statement of their decoration ran
\* without an error.
C23_StoreErrorAbortsDecoration ==
    /\ (ret.op = "GetRecommendedPosts" /\ ~ret.panicked) =>
            /\ \A k \in 1..Len(ret.queries) :
                    ret.queries[k] \in failing
                        => (k = Len(ret.queries) /\ ret.err)
            /\ ret.err => ret.posts = << >>
            /\ ret.posts # << >> =>
                    decorationRuns(ret.userID) \subseteq Range(ret.queries)
    /\ ret.op = "ShowUserPosts" =>
            /\ ret.page.err => ret.page.posts = << >>
            /\ (/\ failing \cap decorationRuns(ret.user) # {}
                /\ \E r \in post : /\ r.user_id = ret.postingUser
                                    /\ r.created_at < Unix(ret.before))
                    => ret.page.err

\* The store failed the last statement of a decoration for an
\* authenticated viewer, after the three before it had run.
C23_Witness ==
    /\ ret.op = "GetRecommendedPosts"
    /\ ret.userID # NoUser
    /\ failing = {"parents"}
    /\ ret.err
    /\ ret.queries = <<"followed_posts", "rando_posts", "reaction_counts",
                       "reply_counts", "distance", "parents">>

(***************************************************************************)
(* The reactions of decorated posts.                                       *)
(***************************************************************************)
NextDecorate ==
    \/ \E u \in ReactionAuthors : \E c \in FeedTexts : CreatePost(u, c, 0)
    \/ \E u \in ReactionUserIDs : \E p \in ReactionPostIDs :
        \E e \in Emojis : ReactToPostIfExists(u, p, e, 0)
    \/ \E u \in ReactionUserIDs : \E p \in ReactionPostIDs :
            UnreactToPostIfExists(u, p)
    \/ \E u \in FeedViewers : CallGetRecommendedPosts(u, FaultBefore, MaxLimit)
    \/ Return

SpecDecorate == Init /\ [][NextDecorate]_vars

\* the users who reacted to a post with an emoji
reactedWith(postID, emoji) ==
    {r.user_id : r \in {x \in reaction : x.post_id = postID /\ x.emoji = emoji}}

\* the emoji used on a post
emojiOn(postID) == {r.emoji : r \in {x \in reaction : x.post_id = postID}}

\* C24: a decorated post has one Reactions entry for every emoji used on
\* it and no other; the entry's Count is the number of users who reacted
\* with the emoji; UserReacted is true exactly on the entry of the emoji the
\* authenticated viewer reacted with, and false on every entry for the
\* anonymous viewer.
C24_ReactionTallies ==
    returned =>
        \A i \in 1..Len(ret.posts) :
            LET entries == ret.posts[i].Reactions
                id == ret.posts[i].PostID
            IN  /\ {x.Emoji : x \in entries} = emojiOn(id)
                /\ Cardinality(entries) = Cardinality(emojiOn(id))
                /\ \A x \in entries :
                    /\ x.Count = Cardinality(reactedWith(id, x.Emoji))
                    /\ x.UserReacted <=>
                            /\ ret.userID # NoUser
                            /\ ret.userID \in reactedWith(id, x.Emoji)

\* A post with two emoji on it, one of them from the viewer, in the
\* viewer's feed.
C24_Witness ==
    /\ returned
    /\ ret.userID # NoUser
    /\ \E i \in 1..Len(ret.posts) :
            /\ Cardinality(ret.posts[i].Reactions) = 2
            /\ \E x \in ret.posts[i].Reactions : x.UserReacted
            /\ \E x \in ret.posts[i].Reactions : ~x.UserReacted

(***************************************************************************)
(* A request on its way through WithUserContextMiddleware and its handler. *)
(* handlers[h].at is where the request stands: "mw_get" and "h_get" wait   *)
(* for a connection, "h_put" and "mw_put" are the deferred puts.           *)
(***************************************************************************)
\* a request arrives at the middleware; user is the user of its session
\* cookie, NoUser without one
ServeHTTP(h, kind, user, followed) ==
    /\ handlers[h].at = "idle"
    /\ handlers' = [handlers EXCEPT ![h] =
            [at |-> "mw_get", kind |-> kind, user |-> user,
             followed |-> followed, status |-> "none"]]
    /\ UNCHANGED <<user_follow, postTables, ret, rwPool, roPool, failing>>

\* conn := db.GetReadOnly(r.Context()) of the middleware
MiddlewareGetReadOnly(h) ==
    /\ handlers[h].at = "mw_get"
    /\ roPool > 0
    /\ roPool' = roPool - 1
    /\ handlers' = [handlers EXCEPT ![h].at = "mw_user"]
    /\ UNCHANGED <<user_follow, postTables, ret, rwPool, failing>>

\* the middleware without its defer: the error response returns with the
\* connection
withUserContextNoDefer(request) ==
    {[request EXCEPT !.at = "h_get"],
     [request EXCEPT !.at = "done", !.status = "Error"]}

\* getUserIfLoggedIn and what follows it: the error response and the
\* return into the deferred put, or h.ServeHTTP
withUserContext(request) ==
    {[request EXCEPT !.at = "h_get"],
     [request EXCEPT !.at = "mw_put", !.status = "Error"]}

\* the middleware from getUserIfLoggedIn on: a cookie that does not decode
\* or a failed query is an error
GetUserIfLoggedIn(h) ==
    /\ handlers[h].at = "mw_user"
    /\ \E request \in withUserContext(handlers[h]) :
            handlers' = [handlers EXCEPT ![h] = request]
    /\ UNCHANGED <<user_follow, postTables, ret, rwPool, roPool, failing>>

\* the handler's first line: app.db.GetReadOnly in Homepage, app.db.Get in
\* FollowUser and UnfollowUser
HandlerGet(h) ==
    /\ handlers[h].at = "h_get"
    /\ IF handlers[h].kind = "homepage"
            THEN roPool > 0 /\ roPool' = roPool - 1 /\ rwPool' = rwPool
            ELSE rwPool > 0 /\ rwPool' = rwPool - 1 /\ roPool' = roPool
    /\ handlers' = [handlers EXCEPT ![h].at = "h_run"]
    /\ UNCHANGED <<user_follow, postTables, ret, failing>>

\* the moment of the requests, after every post
RequestNow == (MaxSec + 1) * TicksPerSecond

\* App.Homepage between its get and its put: the status of the response
homepageHandler(request) ==
    {[status |-> IF page.err THEN "Error" ELSE "OK", table |-> user_follow] :
        page \in homepage(request.user, << >>, RequestNow, MaxLimit)}

\* App.FollowUser and App.UnfollowUser between their get and their put: the
\* status of the response and the follows they leave
followHandler(request) ==
    IF request.user = NoUser
        THEN {[status |-> "SeeOther", table |-> user_follow]}
    ELSE IF request.user = request.followed
        THEN {[status |-> "NotFound", table |-> user_follow]}
    ELSE LET r == IF request.kind = "follow"
                    THEN followUser(request.user, request.followed)
                    ELSE [err |-> FALSE,
                          table |-> deleteUserFollow(user_follow,
                                        request.user, request.followed)]
         IN  {[status |-> IF r.err THEN "Error" ELSE "SeeOther",
               table |-> r.table]}

\* the body of the handler, up to its return
HandlerRun(h) ==
    /\ handlers[h].at = "h_run"
    /\ \E r \in IF handlers[h].kind = "homepage"
                    THEN homepageHandler(handlers[h])
                    ELSE followHandler(handlers[h]) :
            /\ user_follow' = r.table
            /\ handlers' = [handlers EXCEPT ![h] =
                    [@ EXCEPT !.at = "h_put", !.status = r.status]]
    /\ UNCHANGED <<postTables, ret, rwPool, roPool, failing>>

\* defer app.db.PutReadOnly(conn), defer app.db.Put(conn) of the handler
HandlerPut(h) ==
    /\ handlers[h].at = "h_put"
    /\ IF handlers[h].kind = "homepage"
            THEN roPool' = roPool + 1 /\ rwPool' = rwPool
            ELSE rwPool' = rwPool + 1 /\ roPool' = roPool
    /\ handlers' = [handlers EXCEPT ![h].at = "mw_put"]
    /\ UNCHANGED <<user_follow, postTables, ret, failing>>

\* defer db.PutReadOnly(conn) of the middleware
MiddlewarePutReadOnly(h) ==
    /\ handlers[h].at = "mw_put"
    /\ roPool' = roPool + 1
    /\ handlers' = [handlers EXCEPT ![h].at = "done"]
    /\ UNCHANGED <<user_follow, postTables, ret, rwPool, failing>>

\* the context of a request that waits for a connection is done (the
\* client has gone): Get returns without a connection, the request ends
\* and its deferred puts run
Abandon(h) ==
    /\ handlers[h].at \in {"mw_get", "h_get"}
    /\ handlers' = [handlers EXCEPT ![h] =
            [@ EXCEPT !.at = IF @ = "mw_get" THEN "done" ELSE "mw_put",
                      !.status = "Aborted"]]
    /\ UNCHANGED <<user_follow, postTables, ret, rwPool, roPool, failing>>

\* the statements of the homepage the store fails in this specification
RequestFailures == {"recent_posts", "followed_posts"}

\* the requests tried: the homepage, and a follow of user 2, each without a
\* session and as user 1
NextRequests ==
    \/ \E h \in Handlers : \E u \in FeedViewers :
            \/ ServeHTTP(h, "homepage", u, 0)
            \/ ServeHTTP(h, "follow", u, 2)
    \/ \E h \in Handlers : MiddlewareGetReadOnly(h)
    \/ \E h \in Handlers : GetUserIfLoggedIn(h)
    \/ \E h \in Handlers : HandlerGet(h)
    \/ \E h \in Handlers : HandlerRun(h)
    \/ \E h \in Handlers : HandlerPut(h)
    \/ \E h \in Handlers : MiddlewarePutReadOnly(h)
    \/ \E h \in Handlers : Abandon(h)
    \/ \E h \in Handlers : Finish(h)
    \/ \E statement \in RequestFailures : Fail(statement)
    \/ Recover

SpecRequests == Init /\ [][NextRequests]_vars

\* the requests that hold the connection of their middleware
middlewareHolds ==
    {h \in Handlers :
        handlers[h].at \in {"mw_user", "h_get", "h_run", "h_put", "mw_put"}}

\* the requests that hold the connection of their handler
handlerHolds == {h \in Handlers : handlers[h].at \in {"h_run", "h_put"}}

\* C25: a connection is out of its pool only while the middleware or the
\* handler of a request in flight holds it, whichever way the request
\* ends; when every request has finished, the read-only and the read-write
\* pool hold all of their connections.
C25_ConnectionsReturned ==
    /\ roPool + Cardinality(middlewareHolds)
            + Cardinality({h \in handlerHolds : handlers[h].kind = "homepage"})
        = poolSize
    /\ rwPool + Cardinality({h \in handlerHolds : handlers[h].kind # "homepage"})
        = rwPoolSize
    /\ (\A h \in Handlers : handlers[h].at \in {"idle", "done"}) =>
            (roPool = poolSize /\ rwPool = rwPoolSize)

\* Every request has finished: one with the error response of the
\* middleware, one with a redirect of the follow handler.
C25_Witness ==
    /\ \A h \in Handlers : handlers[h].at \in {"idle", "done"}
    /\ \E h \in Handlers :
            handlers[h].at = "done" /\ handlers[h].status = "Error"
    /\ \E h \in Handlers :
            /\ handlers[h].at = "done"
            /\ handlers[h].kind = "follow"
            /\ handlers[h].status = "SeeOther"
    /\ roPool = poolSize
    /\ rwPool = rwPoolSize

\* a request that waits for a connection of a pool that has none free
blocked(h) ==
    \/ handlers[h].at = "mw_get" /\ roPool = 0
    \/ handlers[h].at = "h_get" /\ handlers[h].kind = "homepage" /\ roPool = 0
    \/ handlers[h].at = "h_get" /\ handlers[h].kind # "homepage" /\ rwPool = 0

\* C29: with as many concurrent homepage requests as the read-only pool has
\* connections, there is no state in which every request waits for a
\* connection: some request can always go on.
C29_NoStateAllBlocked ==
    (\A h \in Handlers : handlers[h].kind = "homepage")
        => \E h \in Handlers : ~blocked(h)

(***************************************************************************)
(* GetRecommendedPosts for an authenticated viewer, statement by           *)
(* statement, while follow and unfollow requests are served.  Every        *)
(* statement reads the follows as they are when it runs: the statements    *)
(* of a feed are not inside a transaction.                                 *)
(***************************************************************************)
\* getPostsForLoggedInUser: the statement of GetRecentPostsFromFollowedUsers
FeedFollowedPosts(userID, before, limit) ==
    /\ ret = NoCall
    /\ \E followedPosts \in
            GetRecentPostsFromFollowedUsers(userID, before, limit) :
            ret' = [op |-> "feed", at |-> "followed", userID |-> userID,
                    before |-> before, limit |-> limit,
                    followedPosts |-> followedPosts]
    /\ UNCHANGED <<user_follow, postTables, handlerVars, failing>>

\* getPostsForLoggedInUser: the statement of GetRecentPostsFromRandos, then
\* the loop of draws and the sort
FeedChaosPosts ==
    /\ ret.op = "feed"
    /\ ret.at = "followed"
    /\ \E chaosPosts \in
            GetRecentPostsFromRandos(ret.userID, ret.before, ret.limit) :
        \E drawn \in drawLoop(ret.followedPosts, chaosPosts, ret.limit) :
        \E posts \in sortSlice(drawn) :
            ret' = [op |-> "feed", at |-> "fetched", userID |-> ret.userID,
                    before |-> ret.before, limit |-> ret.limit,
                    followedPosts |-> ret.followedPosts,
                    chaosPosts |-> chaosPosts, posts |-> posts]
    /\ UNCHANGED <<user_follow, postTables, handlerVars, failing>>

\* GetRecommendedPosts: DecoratePosts and the return
FeedDecoratePosts ==
    /\ ret.op = "feed"
    /\ ret.at = "fetched"
    /\ \E draws \in postDraws(ret.posts, PageFloatDraws, FeedRuneDraws) :
            LET d == DecoratePosts(ret.userID, ret.posts, draws)
            IN  ret' = [op |-> "feed", at |-> "returned",
                        userID |-> ret.userID, before |-> ret.before,
                        limit |-> ret.limit,
                        followedPosts |-> ret.followedPosts,
                        chaosPosts |-> ret.chaosPosts, err |-> d.err,
                        posts |-> IF d.err THEN << >> ELSE d.posts]
    /\ UNCHANGED <<user_follow, postTables, handlerVars, failing>>

\* the authors of the posts: the user the viewer follows and unfollows, and
\* another
SnapshotAuthors == {2, 3}

\* the feed of user 1, and requests of user 1 to follow and to unfollow
\* user 2 served by one handler
NextSnapshot ==
    \/ \E u \in SnapshotAuthors : \E c \in FeedTexts : CreatePost(u, c, 0)
    \/ \E kind \in {"follow", "unfollow"} : Request(1, kind, 1, 2)
    \/ GetConn(1)
    \/ LookupUser(1)
    \/ ExecStatement(1)
    \/ PutConn(1)
    \/ Finish(1)
    \/ FeedFollowedPosts(1, FaultBefore, MaxLimit)
    \/ FeedChaosPosts
    \/ FeedDecoratePosts
    \/ Return

SpecSnapshot == Init /\ [][NextSnapshot]_vars

\* C26: a feed request that runs while the viewer's follow and unfollow
\* requests are served returns no post twice, and gives DistanceFromUser 1
\* to every post of another user that it took from the followed stream.
C26_FeedFromOneSnapshot ==
    (ret.op = "feed" /\ ret.at = "returned" /\ ~ret.err) =>
        /\ \A i, j \in 1..Len(ret.posts) :
                i # j => ret.posts[i].PostID # ret.posts[j].PostID
        /\ \A i \in 1..Len(ret.posts) :
                (/\ ret.posts[i].PostID \in postIDs(ret.followedPosts)
                 /\ ret.posts[i].PostID \notin postIDs(ret.chaosPosts)
                 /\ ret.posts[i].UserID # ret.userID)
                    => ret.posts[i].DistanceFromUser = 1

(***************************************************************************)
(* A reader who pages through the homepage: the first page without a       *)
(* cursor, then the next-page link of every page until there is none.      *)
(***************************************************************************)
\* GET / without a before parameter
FirstPage(user, now, limit) ==
    /\ ret = NoCall
    /\ clockAt(now)
    /\ \E page \in homepage(user, << >>, now, limit) :
            ret' = [op |-> "pages", user |-> user, now |-> now,
                    limit |-> limit, err |-> page.err,
                    pages |-> <<page.posts>>,
                    NextPageURL |-> page.NextPageURL]
    /\ UNCHANGED <<user_follow, postTables, handlerVars, failing>>

\* GET of the next-page link of the page before
NextPage ==
    /\ ret.op = "pages"
    /\ ret.NextPageURL # << >>
    /\ \E page \in homepage(ret.user, ret.NextPageURL[1], ret.now, ret.limit) :
            ret' = [ret EXCEPT !.err = page.err,
                               !.pages = Append(@, page.posts),
                               !.NextPageURL = page.NextPageURL]
    /\ UNCHANGED <<user_follow, postTables, handlerVars, failing>>

NextPaginate ==
    \/ \E u \in FeedUserIDs : \E c \in FeedTexts : \E now \in 0..MaxSec :
            CreatePost(u, c, now)
    \/ \E p \in FeedFollowPairs : FollowUser(p[1], p[2])
    \/ \E u \in FeedViewers : \E now \in Nows : \E limit \in PageLimits :
            FirstPage(u, now, limit)
    \/ NextPage
    \/ Return

SpecPaginate == Init /\ [][NextPaginate]_vars

\* the number of times a post is on the pages delivered
timesDelivered(postID) ==
    Cardinality({<<k, i>> \in (1..Len(ret.pages)) \X (1..MaxLimit) :
                    /\ i <= Len(ret.pages[k])
                    /\ ret.pages[k][i].PostID = postID})

\* C27: an anonymous reader who follows the next-page links from the
\* default cursor to the page that has none has been given every stored
\* post exactly once, posts of one second included.
C27_PaginationDeliversEveryPost ==
    (/\ ret.op = "pages"
     /\ ret.user = NoUser
     /\ ~ret.err
     /\ ret.NextPageURL = << >>)
        => \A r \in post : timesDelivered(r.post_id) = 1

(***************************************************************************)
(* Claims about the two streams of the feed of an authenticated viewer.    *)
(***************************************************************************)
\* C28: a full page of the feed of an authenticated viewer is contiguous in
\* time: no stored post created before the before of the request and
\* strictly after the oldest post of the page is missing from the page.
C28_FullPageContiguous ==
    (/\ returned
     /\ ret.userID # NoUser
     /\ ret.limit >= 1
     /\ Len(ret.posts) = ret.limit)
        => \A r \in postJoinUser :
            (/\ timeUnix(r.created_at) < ret.before
             /\ timeUnix(r.created_at) > ret.posts[Len(ret.posts)].CreatedAt)
                => r.post_id \in postIDs(ret.posts)

\* the post ids of a stream read without a limit (every order of the
\* stream has the same posts)
streamIDs(stream) == UNION {postIDs(posts) : posts \in stream}

\* C30: for every viewer and before, with a limit that cuts nothing off,
\* the followed stream and the chaos stream have no post in common and
\* together hold exactly the stored posts created before before.
C30_StreamsPartitionPosts ==
    \A userID \in FeedUserIDs : \A before \in Befores :
        LET followedIDs == streamIDs(GetRecentPostsFromFollowedUsers(
                                        userID, before, MaxPosts + 1))
            chaosIDs == streamIDs(GetRecentPostsFromRandos(
                                        userID, before, MaxPosts + 1))
        IN  /\ followedIDs \cap chaosIDs = {}
            /\ followedIDs \cup chaosIDs =
                    {r.post_id : r \in {x \in post :
                                            timeUnix(x.created_at) < before}}

====
